---- MODULE Spec2Model ----
(***************************************************************************)
(* State-machine model of the agentic-workflows runtime:                   *)
(*   - MCPClientManager  (src/agent/mcp_client.py)                         *)
(*   - PerformanceAgent  (src/agent/agent.py)                              *)
(* Spec      : a manager driven by arbitrary connect_all / call_tool /     *)
(*             disconnect_all calls.                                       *)
(* SpecAgent : PerformanceAgent.run on an agent that owns its manager.     *)
(* SpecRuns  : PerformanceAgent.run called more than once on one agent.    *)
(* SpecPipeline : DeterministicPipeline.run (src/agent/pipeline.py,        *)
(*             src/agent/tool_caller.py) on a connected manager.           *)
(* SpecMain  : the pipeline of the CLI test command (src/agent/main.py).   *)
(***************************************************************************)
EXTENDS Integers, Sequences, FiniteSets, TLC

\* ------------------------------------------------------------------ bounds
\* connect_all calls made on one manager
MaxConnects == 2
\* largest max_iterations an agent is constructed with
MaxIterations == 3
\* largest load volume and duration a configuration requests
MaxLoad == 3

\* The iteration bound of the agent instance that is run more than once
\* (SpecRuns).
MaxRunIterations == 1

\* --------------------------------------------------------------- constants
\* discovery.get("max_concurrent_users", 500)
DefaultMaxUsers == 500
\* discovery.get("max_duration_seconds", 600)
DefaultMaxDuration == 600

\* ------------------------------------------------------------- basic values
None == "None"

Range(s) == {s[i] : i \in 1..Len(s)}

\* iteration in forward order
forward(s) == s

\* reversed(seq)
reversed(s) == [i \in 1..Len(s) |-> s[Len(s) + 1 - i]]

\* ---------------------------------------------------------- configuration
\* MCPClientManager.server_configs: the ordered provider configurations
\* (each configuration is identified by its unique name).
server_configs == <<"s1", "s2">>

Servers == Range(server_configs)

\* Operation names each provider can expose; "t2" is exposed by both.
ServerTools == [s \in Servers |-> IF s = "s1" THEN <<"t1", "t2">> ELSE <<"t2", "t3">>]

\* A tool as a provider describes it in its list_tools response.  The schema
\* carries the provider so that equal names from different providers stay
\* distinguishable; "t3" has no description.
ProviderTool(s, n) ==
    [name |-> n, description |-> IF n = "t3" THEN None ELSE "text",
     inputSchema |-> <<"schema", s, n>>]

\* The list_tools responses a provider may give: its operations, or none.
ListResponses(s) ==
    {<<>>, [i \in 1..Len(ServerTools[s]) |-> ProviderTool(s, ServerTools[s][i])]}

\* How one connection attempt goes: the stage at which it fails ("none" when
\* it does not fail) and the list_tools response when it gets that far.
FailStages == {"launch", "session", "initialize", "list_tools"}

ConnectOutcomes(s) ==
    [fail : FailStages, tools : {<<>>}] \cup [fail : {"none"}, tools : ListResponses(s)]

ConnectInputs ==
    {f \in [Servers -> UNION {ConnectOutcomes(s) : s \in Servers}] :
        \A s \in Servers : f[s] \in ConnectOutcomes(s)}

\* A held resource: the stdio transport context or the ClientSession of a
\* provider, acquired by the cyc-th connect_all call.
Resource(kind, s, cyc) == [kind |-> kind, server |-> s, cycle |-> cyc]

\* ------------------------------------------------------------ dictionaries
EmptyDict == [k \in {} |-> None]

\* d[k] = v
Put(d, k, v) == [x \in (DOMAIN d) \cup {k} |-> IF x = k THEN v ELSE d[x]]

\* k in d
Has(d, k) == k \in DOMAIN d

\* ------------------------------------------------------- MCPClientManager
\* The manager's fields as one value (MCPClientManager.__init__).
NewManager ==
    [connected_servers |-> EmptyDict,
     tool_to_server    |-> EmptyDict,
     claude_tools      |-> <<>>,
     contexts          |-> <<>>]

\* The conversion of one listed tool to the reasoning service's format.
claude_tool(tool) ==
    [name         |-> tool.name,
     description  |-> IF tool.description = None THEN "" ELSE tool.description,
     input_schema |-> tool.inputSchema]

\* The registration loop with first-wins binding: a name that is already bound
\* keeps its provider.
RECURSIVE register_tools_first_wins(_, _, _, _)
register_tools_first_wins(acc, tools, i, config) ==
    IF i > Len(tools) THEN acc
    ELSE register_tools_first_wins(
            [claude_tools   |-> Append(acc.claude_tools, claude_tool(tools[i])),
             tool_to_server |-> IF Has(acc.tool_to_server, tools[i].name)
                                THEN acc.tool_to_server
                                ELSE Put(acc.tool_to_server, tools[i].name, config)],
            tools, i + 1, config)

\* The registration loop of _connect_server: every listed tool is converted
\* and its name is bound to this provider, overwriting an earlier binding.
RECURSIVE register_tools(_, _, _, _)
register_tools(acc, tools, i, config) ==
    IF i > Len(tools) THEN acc
    ELSE register_tools(
            [claude_tools   |-> Append(acc.claude_tools, claude_tool(tools[i])),
             tool_to_server |-> Put(acc.tool_to_server, tools[i].name, config)],
            tools, i + 1, config)

\* _connect_server recording its two resources only once the handshake and the
\* listing have succeeded.
_connect_server_records_late(m, config, cyc, o) ==
    IF o.fail # "none" THEN [m |-> m, raised |-> TRUE, tools |-> <<>>]
    ELSE
    LET session == Resource("session", config, cyc)
        m2      == [m EXCEPT !.contexts = @ \o <<Resource("stdio", config, cyc), session>>]
        reg     == register_tools(
                      [claude_tools |-> <<>>, tool_to_server |-> m2.tool_to_server],
                      o.tools, 1, config)
        m3      == [m2 EXCEPT
                      !.tool_to_server = reg.tool_to_server,
                      !.connected_servers =
                          Put(@, config, [config  |-> config,
                                          session |-> session,
                                          tools   |-> reg.claude_tools])]
    IN [m |-> m3, raised |-> FALSE, tools |-> reg.claude_tools]

\* _connect_server(config): result [m, raised, tools].  Each resource is
\* recorded in _contexts right after its __aenter__ succeeded, so a failure at
\* a later stage leaves the earlier resources held.
_connect_server(m, config, cyc, o) ==
    IF o.fail = "launch" THEN [m |-> m, raised |-> TRUE, tools |-> <<>>]
    ELSE
    LET ctx == Resource("stdio", config, cyc)
        m1  == [m EXCEPT !.contexts = Append(@, ctx)]
    IN
    IF o.fail = "session" THEN [m |-> m1, raised |-> TRUE, tools |-> <<>>]
    ELSE
    LET session == Resource("session", config, cyc)
        m2      == [m1 EXCEPT !.contexts = Append(@, session)]
    IN
    IF o.fail \in {"initialize", "list_tools"}
    THEN [m |-> m2, raised |-> TRUE, tools |-> <<>>]
    ELSE
    LET reg == register_tools(
                  [claude_tools |-> <<>>, tool_to_server |-> m2.tool_to_server],
                  o.tools, 1, config)
        m3  == [m2 EXCEPT
                  !.tool_to_server = reg.tool_to_server,
                  !.connected_servers =
                      Put(@, config, [config  |-> config,
                                      session |-> session,
                                      tools   |-> reg.claude_tools])]
    IN [m |-> m3, raised |-> FALSE, tools |-> reg.claude_tools]

\* connect_loop without the try/except: the first failure propagates.
RECURSIVE connect_loop_propagates(_, _, _, _)
connect_loop_propagates(acc, i, cyc, outcomes) ==
    IF i > Len(server_configs) THEN acc
    ELSE
    LET config == server_configs[i]
        r      == _connect_server(acc.m, config, cyc, outcomes[config])
    IN IF r.raised
       THEN [m |-> r.m, all_tools |-> acc.all_tools,
             attempted |-> Append(acc.attempted, config), raised |-> TRUE]
       ELSE connect_loop_propagates(
               [m         |-> r.m,
                all_tools |-> acc.all_tools \o r.tools,
                attempted |-> Append(acc.attempted, config),
                raised    |-> FALSE],
               i + 1, cyc, outcomes)

\* The loop of connect_all: one try/except per configuration, in order.
\* acc = [m, all_tools, attempted, raised].
RECURSIVE connect_loop(_, _, _, _)
connect_loop(acc, i, cyc, outcomes) ==
    IF i > Len(server_configs) THEN acc
    ELSE
    LET config == server_configs[i]
        r      == _connect_server(acc.m, config, cyc, outcomes[config])
    IN connect_loop(
          [m         |-> r.m,
           all_tools |-> IF r.raised THEN acc.all_tools ELSE acc.all_tools \o r.tools,
           attempted |-> Append(acc.attempted, config),
           raised    |-> FALSE],
          i + 1, cyc, outcomes)

\* connect_all(): result [m, ret, raised, attempted].
connect_all(m, cyc, outcomes) ==
    LET acc == connect_loop(
                  [m |-> m, all_tools |-> <<>>, attempted |-> <<>>, raised |-> FALSE],
                  1, cyc, outcomes)
    IN IF acc.raised
       THEN [m |-> acc.m, ret |-> None, raised |-> TRUE, attempted |-> acc.attempted]
       ELSE [m         |-> [acc.m EXCEPT !.claude_tools = acc.all_tools],
             ret       |-> acc.all_tools,
             raised    |-> FALSE,
             attempted |-> acc.attempted]

\* ------------------------------------------------------------- call_tool
\* json.dumps({"error": msg}): the structured error payload.
error_payload(msg) == [kind |-> "json", error |-> msg]

\* A content fragment of a provider's response: with a text attribute, or not.
TextFragment  == [type |-> "text", text |-> "result"]
ImageFragment == [type |-> "image"]

\* content.text if hasattr(content, "text") else str(content)
part(content) ==
    IF "text" \in DOMAIN content THEN content.text ELSE <<"str", content.type>>

\* How the provider's session answers one call: it raises (an error of the
\* call, or "closed" when the session has ended since connect, e.g. because the
\* provider process exited), or it returns a result with a sequence of content
\* fragments.
CallOutcomes ==
    { [raises |-> TRUE,  exc |-> "boom", content |-> <<>>],
      [raises |-> TRUE,  exc |-> "closed", content |-> <<>>],
      [raises |-> FALSE, exc |-> None,   content |-> <<TextFragment, ImageFragment>>] }

\* "\n".join(parts): the parts in order (the separators are implied).
joined(content) == [kind |-> "text", parts |-> [i \in 1..Len(content) |-> part(content[i])]]

\* dispatch without the try/except: the provider's exception propagates.
dispatch_propagates(server, tool_name, o) ==
    IF o.raises
    THEN [ret |-> None, raised |-> TRUE,
          dispatched |-> <<[session |-> server.session, tool |-> tool_name]>>]
    ELSE [ret |-> joined(o.content), raised |-> FALSE,
          dispatched |-> <<[session |-> server.session, tool |-> tool_name]>>]

\* The guarded dispatch of call_tool: try: session.call_tool(...) except Exception.
dispatch(server, tool_name, o) ==
    IF o.raises
    THEN [ret |-> error_payload(<<"Tool call failed: ", o.exc>>), raised |-> FALSE,
          dispatched |-> <<[session |-> server.session, tool |-> tool_name]>>]
    ELSE [ret |-> joined(o.content), raised |-> FALSE,
          dispatched |-> <<[session |-> server.session, tool |-> tool_name]>>]

\* call_tool with the registry indexed instead of .get(): a KeyError on a miss.
call_tool_keyerror(m, tool_name, o) ==
    IF ~Has(m.tool_to_server, tool_name)
    THEN [ret |-> None, raised |-> TRUE, dispatched |-> <<>>]
    ELSE dispatch(m.connected_servers[m.tool_to_server[tool_name]], tool_name, o)

\* call_tool(tool_name, arguments): result [ret, raised, dispatched].
call_tool(m, tool_name, o) ==
    IF ~Has(m.tool_to_server, tool_name)
    THEN [ret |-> error_payload(<<"Unknown tool: ", tool_name>>), raised |-> FALSE,
          dispatched |-> <<>>]
    ELSE
    LET server_name == m.tool_to_server[tool_name] IN
    IF ~Has(m.connected_servers, server_name)
    THEN [ret |-> error_payload(<<"Server not connected: ", server_name>>),
          raised |-> FALSE, dispatched |-> <<>>]
    ELSE dispatch(m.connected_servers[server_name], tool_name, o)

\* --------------------------------------------------------- disconnect_all
\* release_loop without the try/except: the first release error propagates.
RECURSIVE release_loop_propagates(_, _, _, _)
release_loop_propagates(acc, order, i, failing) ==
    IF i > Len(order) THEN acc
    ELSE IF order[i] \in failing
    THEN [released |-> Append(acc.released, order[i]), errors |-> acc.errors,
          raised |-> TRUE]
    ELSE release_loop_propagates(
            [released |-> Append(acc.released, order[i]), errors |-> acc.errors,
             raised |-> FALSE],
            order, i + 1, failing)

\* The release loop: ctx.__aexit__ for each context of the given order, every
\* exception suppressed.  acc = [released, errors, raised].
RECURSIVE release_loop(_, _, _, _)
release_loop(acc, order, i, failing) ==
    IF i > Len(order) THEN acc
    ELSE release_loop(
            [released |-> Append(acc.released, order[i]),
             errors   |-> IF order[i] \in failing THEN acc.errors + 1 ELSE acc.errors,
             raised   |-> FALSE],
            order, i + 1, failing)

\* disconnect_all without self._contexts.clear(): the released resources stay
\* in the held-resource list.
disconnect_all_keeps_contexts(m, failing) ==
    LET acc == release_loop([released |-> <<>>, errors |-> 0, raised |-> FALSE],
                            reversed(m.contexts), 1, failing)
    IN [m        |-> [connected_servers |-> EmptyDict,
                      tool_to_server    |-> EmptyDict,
                      claude_tools      |-> <<>>,
                      contexts          |-> m.contexts],
        released |-> acc.released,
        errors   |-> acc.errors,
        raised   |-> FALSE]

\* disconnect_all without connected_servers.clear() and _tool_to_server.clear():
\* the released sessions stay reachable by name.
disconnect_all_keeps_sessions(m, failing) ==
    LET acc == release_loop([released |-> <<>>, errors |-> 0, raised |-> FALSE],
                            reversed(m.contexts), 1, failing)
    IN [m        |-> [connected_servers |-> m.connected_servers,
                      tool_to_server    |-> m.tool_to_server,
                      claude_tools      |-> <<>>,
                      contexts          |-> <<>>],
        released |-> acc.released,
        errors   |-> acc.errors,
        raised   |-> FALSE]

\* disconnect_all without self._tool_to_server.clear()
disconnect_all_keeps_registry(m, failing) ==
    LET acc == release_loop([released |-> <<>>, errors |-> 0, raised |-> FALSE],
                            reversed(m.contexts), 1, failing)
    IN [m        |-> [connected_servers |-> EmptyDict,
                      tool_to_server    |-> m.tool_to_server,
                      claude_tools      |-> <<>>,
                      contexts          |-> <<>>],
        released |-> acc.released,
        errors   |-> acc.errors,
        raised   |-> FALSE]

\* disconnect_all(): result [m, released, errors, raised].
disconnect_all(m, failing) ==
    LET acc == release_loop([released |-> <<>>, errors |-> 0, raised |-> FALSE],
                            reversed(m.contexts), 1, failing)
    IN IF acc.raised
       THEN [m |-> m, released |-> acc.released, errors |-> acc.errors, raised |-> TRUE]
       ELSE [m        |-> [connected_servers |-> EmptyDict,
                           tool_to_server    |-> EmptyDict,
                           claude_tools      |-> <<>>,
                           contexts          |-> <<>>],
             released |-> acc.released,
             errors   |-> acc.errors,
             raised   |-> FALSE]

\* -------------------------------------------------------- PerformanceAgent
\* Text is a sequence of pieces: single characters, or a longer constant piece
\* of a fixed message.
NoToolsMessage ==
    <<"No MCP tools available. Make sure MCP servers are built (npm run build).">>

ApiErrorPrefix == <<"Claude API error: ">>

\* The texts the reasoning service may emit in a text block.
Texts == { <<"o", "k">>, <<"F", "a", "i", "l">> }

\* str.upper(), on the characters that occur
upper_char(c) ==
    CASE c = "a" -> "A" [] c = "i" -> "I" [] c = "l" -> "L" [] c = "f" -> "F"
      [] c = "o" -> "O" [] c = "k" -> "K" [] OTHER -> c

upper(str) == [i \in 1..Len(str) |-> upper_char(str[i])]

\* needle in hay
contains(hay, needle) ==
    \E i \in 1..(Len(hay) - Len(needle) + 1) :
        SubSeq(hay, i, i + Len(needle) - 1) = needle

\* "\n".join(strs)
RECURSIVE join(_)
join(strs) ==
    IF Len(strs) = 0 THEN <<>>
    ELSE IF Len(strs) = 1 THEN strs[1]
    ELSE strs[1] \o <<"\n">> \o join(Tail(strs))

\* Content blocks of a model turn.
TextBlock(t)       == [type |-> "text", text |-> t]
ToolUse(id, name)  == [type |-> "tool_use", id |-> id, name |-> name]

\* The contents of the turns the reasoning service may answer with.
Contents ==
    { <<>>,
      <<TextBlock(<<"o", "k">>)>>,
      <<TextBlock(<<"F", "a", "i", "l">>)>>,
      <<ToolUse("tu1", "t1")>>,
      <<ToolUse("tu1", "t1"), ToolUse("tu2", "nope")>>,
      <<TextBlock(<<"o", "k">>), ToolUse("tu1", "nope"), TextBlock(<<"F", "a", "i", "l">>)>> }

StopReasons == {"end_turn", "tool_use"}

\* What client.messages.create does: it returns a response, raises an
\* anthropic.APIError, or raises an exception of another class.
ModelOutcomes ==
    [kind : {"response"}, content : Contents, stop_reason : StopReasons, exc : {None}]
    \cup [kind : {"api_error"}, content : {<<>>}, stop_reason : {None}, exc : {<<"overloaded">>}]
    \cup [kind : {"other_error"}, content : {<<>>}, stop_reason : {None}, exc : {<<"TypeError">>}]

\* except anthropic.APIError: the exceptions the loop's handler catches
caught(o) == o.kind = "api_error"

\* while iterations <= self.max_iterations
loop_cond_le(its, max) == its <= max

\* while iterations < self.max_iterations
loop_cond(its, max) == its < max

\* A turn read as asking for no tool at all.
tool_calls_of_none(content) == <<>>

\* [block for block in assistant_content if block.type == "tool_use"]
IsToolUse(block) == block.type = "tool_use"
tool_calls_of(content) == SelectSeq(content, IsToolUse)

\* "\n".join(block.text for block in assistant_content if block.type == "text")
IsText(block) == block.type = "text"

\* Only the first text block of the turn.
text_of_first(content) ==
    LET blocks == SelectSeq(content, IsText)
    IN IF blocks = <<>> THEN <<>> ELSE blocks[1].text

text_of(content) ==
    LET blocks == SelectSeq(content, IsText)
    IN join([i \in 1..Len(blocks) |-> blocks[i].text])

\* The tool calls of a turn taken last to first.
next_call_backwards(tool_calls, results) == tool_calls[Len(tool_calls) - Len(results)]

\* for tool_call in tool_calls: the call executed once `results` have been
\* collected
next_call(tool_calls, results) == tool_calls[Len(results) + 1]

\* A tool result tagged with the name of the tool instead of the id of the call.
tool_result_by_name(tool_call, content) ==
    [type |-> "tool_result", tool_use_id |-> tool_call.name, content |-> content]

\* {"type": "tool_result", "tool_use_id": tool_id, "content": result}
tool_result(tool_call, content) ==
    [type |-> "tool_result", tool_use_id |-> tool_call.id, content |-> content]

\* A diagnostic that drops the exception text and the prefix.
api_error_text_empty(exc) == <<>>

\* f"Claude API error: {e}"
api_error_text(exc) == ApiErrorPrefix \o exc

\* the guard left out
no_tools_never(tools) == FALSE

\* if not tools: the zero-tools guard
no_tools(tools) == Len(tools) = 0

\* A CI run without any final text flagged as well.
regression_or_empty(ci, final) ==
    ci /\ (final = <<>> \/ contains(upper(final), <<"F", "A", "I", "L">>))

\* The marker looked for without folding the case of the text.
regression_exact_case(ci, final) == ci /\ contains(final, <<"F", "A", "I", "L">>)

\* self.ci_mode and "FAIL" in final_response.upper()
regression(ci, final) == ci /\ contains(upper(final), <<"F", "A", "I", "L">>)

\* main.py, run in CI mode: sys.exit(1 if result.has_regression else 0)
exit_status(agent_result) == IF agent_result.has_regression THEN 1 ELSE 0

AgentResult(resp, calls, its, reg) ==
    [response |-> resp, tool_calls_made |-> calls, iterations |-> its,
     has_regression |-> reg]

UserMessage == [role |-> "user", content |-> <<"task">>]

\* --------------------------------------------- tool_caller.py, pipeline.py
\* The eight operations the fixed pipeline invokes, and the deployment the
\* pipeline specifications connect to: "s2" is the metrics provider, "s1"
\* provides everything else.
PipelineServerTools ==
    [s \in Servers |->
        IF s = "s1"
        THEN <<"discover_endpoints", "generate_k6_script", "run_k6_test",
               "analyze_results", "compare_baseline", "save_baseline",
               "generate_report">>
        ELSE <<"snapshot_metrics">>]

\* connect_all inputs of the pipeline specifications: each provider either
\* fails to launch or connects and lists its operations.
PipelineConnectInputs ==
    [Servers -> {"launch", "none"}]

PipelineConnectOutcome(f) ==
    [s \in Servers |->
        IF f[s] = "none"
        THEN [fail |-> "none",
              tools |-> [i \in 1..Len(PipelineServerTools[s]) |->
                            ProviderTool(s, PipelineServerTools[s][i])]]
        ELSE [fail |-> "launch", tools |-> <<>>]]

\* dict.get(k, default)
Get(d, k, default) == IF Has(d, k) THEN d[k] ELSE default

\* The text a provider returns, described by what json.loads makes of it: a
\* JSON object ("dict", with its members), valid JSON that is not an object
\* ("list", e.g. "[]"), or text that is not JSON ("garbage").
ObjectText(members) == [json |-> "dict", value |-> members]
ListText == [json |-> "list", value |-> <<>>]
GarbageText == [json |-> "garbage", value |-> <<>>]

\* A provider answer made of one text fragment.
Answer(text) ==
    [raises |-> FALSE, exc |-> None, content |-> <<[type |-> "text", text |-> text]>>]

\* json.loads(raw).  raw is what call_tool returned: json.dumps({"error": msg})
\* or the provider's fragments joined by "\n".  One fragment parses as its
\* text does; no fragment ("") and several fragments (documents separated by
\* a newline) are not JSON.
json_loads(raw) ==
    IF raw.kind = "json"
    THEN [raised |-> None, kind |-> "dict", value |-> [error |-> raw.error]]
    ELSE IF Len(raw.parts) # 1
    THEN [raised |-> "JSONDecodeError", kind |-> None, value |-> <<>>]
    ELSE IF raw.parts[1].json = "garbage"
    THEN [raised |-> "JSONDecodeError", kind |-> None, value |-> <<>>]
    ELSE [raised |-> None, kind |-> raw.parts[1].json, value |-> raw.parts[1].value]

\* "error" in result: key membership for a dict, element membership for a list.
has_error(j) == j.kind = "dict" /\ Has(j.value, "error")

\* call_tool_safe without the "error" check: the parsed response is returned
\* whatever it carries.
call_tool_unchecked(m, name, o) ==
    LET call == call_tool(m, name, o)
        j    == json_loads(call.ret)
    IN  IF j.raised # None
        THEN [raised |-> j.raised, kind |-> None, value |-> <<>>, call |-> call]
        ELSE [raised |-> None, kind |-> j.kind, value |-> j.value, call |-> call]

\* call_tool_safe(mcp, name, args): result [raised, kind, value, call] where
\* call is the underlying call_tool result.
call_tool_safe(m, name, o) ==
    LET call == call_tool(m, name, o)
        j    == json_loads(call.ret)
    IN  IF j.raised # None
        THEN [raised |-> j.raised, kind |-> None, value |-> <<>>, call |-> call]
        ELSE IF has_error(j)
        THEN [raised |-> "ToolCallError", kind |-> None, value |-> <<>>, call |-> call]
        ELSE [raised |-> None, kind |-> j.kind, value |-> j.value, call |-> call]

\* take_snapshot(mcp, base_url, service, label): result [ret, raised, call].
\* Only ToolCallError and json.JSONDecodeError are caught; result.get on a
\* value that is not a dict raises AttributeError.
take_snapshot(m, o) ==
    LET r == call_tool_safe(m, "snapshot_metrics", o)
    IN  IF r.raised \in {"ToolCallError", "JSONDecodeError"}
        THEN [ret |-> None, raised |-> None, call |-> r.call]
        ELSE IF r.kind # "dict"
        THEN [ret |-> None, raised |-> "AttributeError", call |-> r.call]
        ELSE [ret |-> Get(r.value, "saved_to", None), raised |-> None, call |-> r.call]

\* An optional integer (Optional[int]): <<>> is None, <<n>> is the integer n.
Absent == <<>>
Some(n) == <<n>>

\* x or default, for an optional integer: None and 0 are falsy.
or_default(x, default) ==
    IF x = Absent THEN default ELSE IF x[1] = 0 THEN default ELSE x[1]

min(a, b) == IF a <= b THEN a ELSE b

\* min(cfg.users or max_users, max_users)
effective(requested, maximum) == min(or_default(requested, maximum), maximum)

\* The requests a configuration may carry for load volume and for duration.
RequestedLoads == {Absent} \cup {Some(n) : n \in 0..MaxLoad}

\* The maximum a discovery response may carry (Absent: the key is missing).
DiscoveredMaxima == {Absent, Some(MaxLoad - 1)}

\* d with d[k] = opt's value when opt is present.
WithOpt(d, k, opt) == IF opt = Absent THEN d ELSE Put(d, k, opt[1])

\* The objects a successful discover_endpoints answer may be.
DiscoveryObjects ==
    { WithOpt(WithOpt([endpoints |-> <<"e1", "e2">>, base_url |-> "http://svc"],
                      "max_concurrent_users", mu),
              "max_duration_seconds", md) : mu \in DiscoveredMaxima, md \in DiscoveredMaxima }
    \cup { [endpoints |-> <<>>, base_url |-> "http://svc"],
           [endpoints |-> <<"e1">>],
           [endpoints |-> <<"e1">>, base_url |-> "http://svc",
            test_data_file |-> "data.json", token_file |-> "tokens.json"] }

\* The objects a provider returns when the operation succeeds.
SuccessObjects(name, args) ==
    CASE name = "discover_endpoints" -> DiscoveryObjects
      [] name = "generate_k6_script" -> { [script_name |-> "svc-deterministic.js"] }
      [] name = "snapshot_metrics"   ->
            { [saved_to |-> IF args.label = "before" THEN "before.json" ELSE "after.json"],
              [status |-> "captured"] }
      [] name = "run_k6_test"        ->
            { [status |-> "completed", results_file |-> "results.json"],
              [status |-> "completed"] }
      [] name = "analyze_results"    -> { [performance_grade |-> "A"] }
      [] name = "compare_baseline"   ->
            { [verdict |-> "FAIL", regressions |-> <<"p95">>],
              [verdict |-> "PASS", regressions |-> <<>>],
              [regressions |-> <<>>] }
      [] name = "save_baseline"      -> { [saved |-> TRUE] }
      [] name = "generate_report"    -> { [saved_to |-> "report.md"] }

\* How a provider may answer one pipeline call: the call raises, the answer
\* carries an error marker, is not JSON, is JSON but not an object, or is one
\* of the operation's success objects.
ToolOutcomes(name, args) ==
    { [raises |-> TRUE, exc |-> "boom", content |-> <<>>],
      Answer(ObjectText([error |-> "failed"])),
      Answer(GarbageText),
      Answer(ListText) }
    \cup { Answer(ObjectText(d)) : d \in SuccessObjects(name, args) }

\* A step's outcome: the exception it raises (None when it returns), the value
\* it returns and the underlying call_tool result.
Raises(exc, call) == [raised |-> exc, ret |-> None, call |-> call]
Returns(value, call) == [raised |-> None, ret |-> value, call |-> call]

discover_args(config) == [service_name |-> config.service, environment |-> config.env]

\* DeterministicPipeline._discover
_discover(m, config, o) ==
    LET r == call_tool_safe(m, "discover_endpoints", o)
    IN  IF r.raised # None THEN Raises(r.raised, r.call)
        ELSE IF r.kind # "dict" THEN Raises("AttributeError", r.call)
        ELSE IF Get(r.value, "endpoints", <<>>) = <<>> THEN Raises("ValueError", r.call)
        ELSE IF ~Has(r.value, "base_url") THEN Raises("KeyError", r.call)
        ELSE
        LET max_users    == Get(r.value, "max_concurrent_users", DefaultMaxUsers)
            max_duration == Get(r.value, "max_duration_seconds", DefaultMaxDuration)
        IN  Returns([endpoints      |-> r.value["endpoints"],
                     base_url       |-> r.value["base_url"],
                     test_data_file |-> Get(r.value, "test_data_file", None),
                     token_file     |-> Get(r.value, "token_file", None),
                     max_users      |-> max_users,
                     max_duration   |-> max_duration,
                     eff_users      |-> effective(config.users, max_users),
                     eff_duration   |-> effective(config.duration, max_duration)],
                    r.call)

\* f"{cfg.service}-deterministic"
test_name(config) == <<config.service, "-deterministic">>

\* The arguments _generate_script builds.
script_args(config, discovery) ==
    LET base == [test_name            |-> test_name(config),
                 base_url             |-> discovery.base_url,
                 endpoints            |-> discovery.endpoints,
                 virtual_users        |-> discovery.eff_users,
                 duration_seconds     |-> discovery.eff_duration,
                 max_concurrent_users |-> discovery.max_users,
                 max_duration_seconds |-> discovery.max_duration]
        data == IF discovery.test_data_file # None
                THEN Put(base, "test_data_file", discovery.test_data_file) ELSE base
    IN  IF discovery.token_file # None
        THEN Put(Put(Put(data, "token_file", discovery.token_file),
                     "service_name", config.service), "environment", config.env)
        ELSE data

\* DeterministicPipeline._generate_script
_generate_script(m, config, o) ==
    LET r == call_tool_safe(m, "generate_k6_script", o)
    IN  IF r.raised # None THEN Raises(r.raised, r.call)
        ELSE IF r.kind # "dict" THEN Raises("AttributeError", r.call)
        ELSE Returns([test_name   |-> test_name(config),
                      script_name |-> Get(r.value, "script_name", None)], r.call)

snapshot_args(config, discovery, label) ==
    [base_url |-> discovery.base_url, label |-> label, service_name |-> config.service]

run_args(script) == [script_name |-> <<script.test_name, ".js">>]

\* A call through call_tool_safe whose result the caller reads with .get().
safe_get(m, name, o) ==
    LET r == call_tool_safe(m, name, o)
    IN  IF r.raised # None THEN Raises(r.raised, r.call)
        ELSE IF r.kind # "dict" THEN Raises("AttributeError", r.call)
        ELSE Returns(r.value, r.call)

\* A call through call_tool_safe whose result the caller only passes on.
safe_pass(m, name, o) ==
    LET r == call_tool_safe(m, name, o)
    IN  IF r.raised # None THEN Raises(r.raised, r.call)
        ELSE Returns(r.value, r.call)

\* The default verdict kept whatever the comparison says.
keep_default_verdict(comparison) == "PASS"

\* verdict = comparison.get("verdict", "PASS")
adopt_verdict(comparison) == Get(comparison, "verdict", "PASS")

compare_args(config, results_file) ==
    [current_results_file |-> results_file, baseline_name |-> config.baseline]

save_args(config, results_file) ==
    [results_file |-> results_file, baseline_name |-> config.save_as,
     metadata |-> [service |-> config.service, environment |-> config.env]]

\* [p for p in [snap_before, snap_after] if p]
snapshot_paths(snap_before, snap_after) ==
    SelectSeq(<<snap_before, snap_after>>, LAMBDA p : p # None)

\* The arguments _analyze builds for generate_report.
report_args(config, results_file, snap_before, snap_after) ==
    LET base  == [results_file |-> results_file, service_name |-> config.service,
                  environment |-> config.env]
        named == IF config.baseline # None
                 THEN Put(base, "baseline_name", config.baseline) ELSE base
        paths == snapshot_paths(snap_before, snap_after)
    IN  IF paths # <<>> THEN Put(named, "metrics_snapshots", paths) ELSE named

PipelineResult(analysis, comparison, report, verdict) ==
    [analysis |-> analysis, comparison |-> comparison, report |-> report,
     verdict |-> verdict]

\* ------------------------------------------- main.py, test._run_pipeline
\* raw = await mcp.call_tool(name, args); json.loads(raw): [raised, kind, value, call].
call_and_load(m, name, o) ==
    LET call == call_tool(m, name, o)
        j    == json_loads(call.ret)
    IN  [raised |-> j.raised, kind |-> j.kind, value |-> j.value, call |-> call]

\* A step of _run_pipeline: the exception it raises, whether it executes
\* "return None", the value it continues with, and the call_tool result.
MainRaises(exc, call)  == [raised |-> exc, returned |-> FALSE, ret |-> None, call |-> call]
MainReturnsNone(call)  == [raised |-> None, returned |-> TRUE, ret |-> None, call |-> call]
MainContinues(v, call) == [raised |-> None, returned |-> FALSE, ret |-> v, call |-> call]

\* step 1 of _run_pipeline, with the caps
main_discover(m, config, o) ==
    LET r == call_and_load(m, "discover_endpoints", o)
    IN  IF r.raised # None THEN MainRaises(r.raised, r.call)
        ELSE IF has_error(r) THEN MainReturnsNone(r.call)
        ELSE IF r.kind # "dict" THEN MainRaises("AttributeError", r.call)
        ELSE IF Get(r.value, "endpoints", <<>>) = <<>> THEN MainReturnsNone(r.call)
        ELSE IF ~Has(r.value, "base_url") THEN MainRaises("KeyError", r.call)
        ELSE
        LET max_users    == Get(r.value, "max_concurrent_users", DefaultMaxUsers)
            max_duration == Get(r.value, "max_duration_seconds", DefaultMaxDuration)
        IN  MainContinues([endpoints      |-> r.value["endpoints"],
                           base_url       |-> r.value["base_url"],
                           test_data_file |-> Get(r.value, "test_data_file", None),
                           token_file     |-> None,
                           max_users      |-> max_users,
                           max_duration   |-> max_duration,
                           eff_users      |-> effective(config.users, max_users),
                           eff_duration   |-> effective(config.duration, max_duration)],
                          r.call)

\* step 2 of _run_pipeline
main_generate(m, config, o) ==
    LET r == call_and_load(m, "generate_k6_script", o)
    IN  IF r.raised # None THEN MainRaises(r.raised, r.call)
        ELSE IF has_error(r) THEN MainReturnsNone(r.call)
        ELSE IF r.kind # "dict"
        THEN IF config.ci
             THEN MainContinues([test_name |-> test_name(config), script_name |-> None],
                                r.call)
             ELSE MainRaises("AttributeError", r.call)
        ELSE MainContinues([test_name   |-> test_name(config),
                            script_name |-> Get(r.value, "script_name", None)], r.call)

\* steps 3 and 5 of _run_pipeline: the snapshot path, None on an error marker
main_snapshot(m, o) ==
    LET r == call_and_load(m, "snapshot_metrics", o)
    IN  IF r.raised # None THEN MainRaises(r.raised, r.call)
        ELSE IF has_error(r) THEN MainContinues(None, r.call)
        ELSE IF r.kind # "dict" THEN MainRaises("AttributeError", r.call)
        ELSE MainContinues(Get(r.value, "saved_to", None), r.call)

\* A response _run_pipeline reads with .get() and never tests for "error".
main_get(m, name, o) ==
    LET r == call_and_load(m, name, o)
    IN  IF r.raised # None THEN MainRaises(r.raised, r.call)
        ELSE IF r.kind # "dict" THEN MainRaises("AttributeError", r.call)
        ELSE MainContinues(r.value, r.call)

\* A response _run_pipeline reads with .get() only when it prints (not ci).
main_print(m, config, name, o) ==
    LET r == call_and_load(m, name, o)
    IN  IF r.raised # None THEN MainRaises(r.raised, r.call)
        ELSE IF r.kind # "dict" /\ ~config.ci THEN MainRaises("AttributeError", r.call)
        ELSE MainContinues(r.value, r.call)

\* A response _run_pipeline only parses.
main_load(m, name, o) ==
    LET r == call_and_load(m, name, o)
    IN  IF r.raised # None THEN MainRaises(r.raised, r.call)
        ELSE MainContinues(r.value, r.call)

\* ------------------------------------------------------------------ state
VARIABLES
    \* MCPClientManager fields
    connected_servers,  \* name -> ConnectedServer
    tool_to_server,     \* _tool_to_server: tool name -> provider name
    claude_tools,       \* _claude_tools: the cached tool list
    contexts,           \* _contexts: the held resources, in acquisition order
    \* observation of the manager
    connects,           \* connect_all calls made so far
    last,               \* the latest manager operation: inputs, result, effects
    \* PerformanceAgent fields
    max_iterations,
    ci_mode,
    conversation,
    total_tool_calls,
    \* PerformanceAgent.run: position and locals
    pc,                 \* idle, AWAITING_MODEL, EXECUTING_TOOLS, CLEANUP, returned, raised
    iterations,
    final_response,
    response,           \* the latest model response (content, stop_reason)
    tool_results,       \* results collected for the current turn
    result,             \* the AgentResult returned
    \* observation of the run
    exit,               \* how the loop was left
    model_calls,        \* reasoning-service calls issued
    tool_calls_issued,  \* mcp.call_tool calls issued
    \* the deterministic pipeline (DeterministicPipeline, main._run_pipeline)
    cfg,                \* TestRunConfig: users, duration, baseline, save_as, ci
    p_pc,               \* position of the pipeline run
    locals,             \* the local variables of the run
    p_result,           \* what the run returned
    p_raised,           \* the exception that left the run
    invoked             \* the tool operations invoked so far, in order

mgr_vars == <<connected_servers, tool_to_server, claude_tools, contexts, connects, last>>

agent_vars == <<max_iterations, ci_mode, conversation, total_tool_calls, pc, iterations,
                final_response, response, tool_results, result, exit, model_calls,
                tool_calls_issued>>

pipe_vars == <<cfg, p_pc, locals, p_result, p_raised, invoked>>

vars == <<mgr_vars, agent_vars, pipe_vars>>

\* The manager's fields as one value.
Mgr ==
    [connected_servers |-> connected_servers,
     tool_to_server    |-> tool_to_server,
     claude_tools      |-> claude_tools,
     contexts          |-> contexts]

SetMgr(m) ==
    /\ connected_servers' = m.connected_servers
    /\ tool_to_server'    = m.tool_to_server
    /\ claude_tools'      = m.claude_tools
    /\ contexts'          = m.contexts

\* The record of a manager operation; freed is the set of resources whose
\* release a disconnect_all has attempted so far.
NoOp ==
    [op |-> "init", arg |-> None, input |-> None, before |-> NewManager,
     ret |-> None, raised |-> FALSE,
     attempted |-> <<>>, dispatched |-> <<>>, released |-> <<>>, errors |-> 0,
     freed |-> {}]

ConnectRecord(m, outcomes, r) ==
    [NoOp EXCEPT !.op = "connect_all", !.input = outcomes, !.before = m,
                 !.ret = r.ret, !.raised = r.raised, !.attempted = r.attempted,
                 !.freed = last.freed]

CallRecord(m, tool_name, o, r) ==
    [NoOp EXCEPT !.op = "call_tool", !.arg = tool_name, !.before = m,
                 !.input = IF r.dispatched = <<>> /\ ~r.raised THEN None ELSE o,
                 !.ret = r.ret, !.raised = r.raised, !.dispatched = r.dispatched,
                 !.freed = last.freed]

DisconnectRecord(m, failing, r) ==
    [NoOp EXCEPT !.op = "disconnect_all", !.input = failing, !.before = m,
                 !.raised = r.raised, !.released = r.released, !.errors = r.errors,
                 !.freed = last.freed \cup Range(r.released)]

\* The sets of held resources whose release may raise in one disconnect_all:
\* none, any single one, or all of them.
ReleaseFailures(ctxs) ==
    {{}, Range(ctxs)} \cup {{c} : c \in Range(ctxs)}

\* The names a caller may ask for: every provider operation and a stranger.
CallNames == {"t1", "t2", "t3", "nope"}

MgrInit ==
    /\ connected_servers = NewManager.connected_servers
    /\ tool_to_server    = NewManager.tool_to_server
    /\ claude_tools      = NewManager.claude_tools
    /\ contexts          = NewManager.contexts
    /\ connects = 0
    /\ last = NoOp

\* PerformanceAgent.__init__ (max_iterations and ci_mode are its arguments)
AgentInit(max, ci) ==
    /\ max_iterations = max
    /\ ci_mode = ci
    /\ conversation = <<>>
    /\ total_tool_calls = 0
    /\ pc = "idle"
    /\ iterations = 0
    /\ final_response = <<>>
    /\ response = None
    /\ tool_results = <<>>
    /\ result = None
    /\ exit = None
    /\ model_calls = 0
    /\ tool_calls_issued = 0

\* TestRunConfig (config_loader.py): the fields the pipeline's control flow
\* reads; service and env are fixed.
TestRunConfig(users, duration, baseline, save_as, ci) ==
    [service |-> "svc", env |-> "dev", users |-> users, duration |-> duration,
     baseline |-> baseline, save_as |-> save_as, ci |-> ci]

\* The locals of a pipeline run before any step has assigned them.
NoLocals ==
    [discovery |-> None, script |-> None, snap_before |-> None, snap_after |-> None,
     run_result |-> None, results_file |-> None, analysis |-> None,
     comparison |-> None, verdict |-> None, report |-> None]

\* A pipeline that has been given its configuration and has not run.
PipeInit(config) ==
    /\ cfg = config
    /\ p_pc = "idle"
    /\ locals = NoLocals
    /\ p_result = None
    /\ p_raised = None
    /\ invoked = <<>>

\* ------------------------------------------------ Spec: the manager alone
Init ==
    /\ MgrInit
    /\ AgentInit(MaxIterations, FALSE)
    /\ PipeInit(TestRunConfig(Absent, Absent, None, None, FALSE))

\* await mcp.connect_all()
ConnectAll ==
    /\ connects < MaxConnects
    /\ \E outcomes \in ConnectInputs :
          \E r \in {connect_all(Mgr, connects + 1, outcomes)} :
          /\ SetMgr(r.m)
          /\ connects' = connects + 1
          /\ last' = ConnectRecord(Mgr, outcomes, r)
          /\ UNCHANGED <<agent_vars, pipe_vars>>

\* await mcp.call_tool(tool_name, arguments)
CallTool ==
    \E tool_name \in CallNames, o \in CallOutcomes :
        \E r \in {call_tool(Mgr, tool_name, o)} :
        /\ last' = CallRecord(Mgr, tool_name, o, r)
        /\ UNCHANGED <<connected_servers, tool_to_server, claude_tools, contexts, connects>>
        /\ UNCHANGED <<agent_vars, pipe_vars>>

\* await mcp.disconnect_all()
DisconnectAll ==
    \E failing \in ReleaseFailures(contexts) :
        \E r \in {disconnect_all(Mgr, failing)} :
        /\ SetMgr(r.m)
        /\ UNCHANGED connects
        /\ last' = DisconnectRecord(Mgr, failing, r)
        /\ UNCHANGED <<agent_vars, pipe_vars>>

Next == ConnectAll \/ CallTool \/ DisconnectAll

Spec == Init /\ [][Next]_vars

\* ------------------------------------- SpecAgent: PerformanceAgent.run
InitAgent ==
    /\ MgrInit
    /\ PipeInit(TestRunConfig(Absent, Absent, None, None, FALSE))
    /\ \E max \in 0..MaxIterations, ci \in BOOLEAN : AgentInit(max, ci)

\* Where run goes when control reaches the head of the while loop.
loop_head(its, max) == IF loop_cond(its, max) THEN "AWAITING_MODEL" ELSE "CLEANUP"

\* run, up to the loop: initialize(), the user message, the zero-tools guard.
RunStart ==
    /\ pc = "idle"
    /\ UNCHANGED pipe_vars
    /\ \E outcomes \in ConnectInputs :
       \E r \in {connect_all(Mgr, connects + 1, outcomes)} :
          /\ SetMgr(r.m)
          /\ connects' = connects + 1
          /\ last' = ConnectRecord(Mgr, outcomes, r)
          /\ IF r.raised
             THEN /\ pc' = "raised"
                  /\ exit' = "exception"
                  /\ UNCHANGED <<conversation, result, iterations, final_response>>
             ELSE /\ conversation' = Append(conversation, UserMessage)
                  /\ IF no_tools(r.m.claude_tools)
                     THEN /\ result' = AgentResult(NoToolsMessage, 0, 0, FALSE)
                          /\ pc' = "returned"
                          /\ exit' = "no_tools"
                          /\ UNCHANGED <<iterations, final_response>>
                     ELSE /\ iterations' = 0
                          /\ final_response' = <<>>
                          /\ pc' = loop_head(0, max_iterations)
                          /\ exit' = IF loop_cond(0, max_iterations) THEN exit ELSE "cutoff"
                          /\ UNCHANGED result
    /\ UNCHANGED <<max_iterations, ci_mode, total_tool_calls, response, tool_results,
                   model_calls, tool_calls_issued>>

\* One pass of the loop up to the tool calls: the iteration counter, the
\* reasoning-service call, the assistant message, the no-tool-calls exit.
ModelCall ==
    /\ pc = "AWAITING_MODEL"
    /\ UNCHANGED pipe_vars
    /\ iterations' = iterations + 1
    /\ model_calls' = model_calls + 1
    /\ \E o \in ModelOutcomes :
          IF o.kind # "response"
          THEN /\ IF caught(o)
                  THEN /\ final_response' = api_error_text(o.exc)
                       /\ pc' = "CLEANUP"
                       /\ exit' = "api_error"
                  ELSE /\ pc' = "raised"
                       /\ exit' = "exception"
                       /\ UNCHANGED final_response
               /\ UNCHANGED <<conversation, response, tool_results>>
          ELSE /\ response' = [content |-> o.content, stop_reason |-> o.stop_reason]
               /\ conversation' =
                     Append(conversation, [role |-> "assistant", content |-> o.content])
               /\ IF Len(tool_calls_of(o.content)) = 0
                  THEN /\ final_response' = text_of(o.content)
                       /\ pc' = "CLEANUP"
                       /\ exit' = "final_answer"
                       /\ UNCHANGED tool_results
                  ELSE /\ pc' = "EXECUTING_TOOLS"
                       /\ tool_results' = <<>>
                       /\ UNCHANGED <<final_response, exit>>
    /\ UNCHANGED <<mgr_vars, max_iterations, ci_mode, total_tool_calls, result,
                   tool_calls_issued>>

\* One tool call of the current turn; after the last one, the tool-result
\* message, the stop condition and the loop head.
ExecTool ==
    /\ pc = "EXECUTING_TOOLS"
    /\ UNCHANGED pipe_vars
    /\ LET tool_calls == tool_calls_of(response.content)
           tool_call  == next_call(tool_calls, tool_results)
       IN
       \E o \in CallOutcomes :
       \E r \in {call_tool(Mgr, tool_call.name, o)} :
          /\ last' = CallRecord(Mgr, tool_call.name, o, r)
          /\ tool_calls_issued' = tool_calls_issued + 1
          /\ IF r.raised
             THEN /\ pc' = "raised"
                  /\ exit' = "exception"
                  /\ UNCHANGED <<total_tool_calls, tool_results, conversation,
                                 final_response>>
             ELSE
             LET results == Append(tool_results, tool_result(tool_call, r.ret))
             IN
             /\ total_tool_calls' = total_tool_calls + 1
             /\ tool_results' = results
             /\ IF Len(results) < Len(tool_calls)
                THEN UNCHANGED <<conversation, final_response, pc, exit>>
                ELSE /\ conversation' =
                           Append(conversation, [role |-> "user", content |-> results])
                     /\ IF response.stop_reason = "end_turn"
                        THEN /\ final_response' = text_of(response.content)
                             /\ pc' = "CLEANUP"
                             /\ exit' = "end_turn"
                        ELSE /\ pc' = loop_head(iterations, max_iterations)
                             /\ exit' = IF loop_cond(iterations, max_iterations)
                                        THEN exit ELSE "cutoff"
                             /\ UNCHANGED final_response
    /\ UNCHANGED <<connected_servers, tool_to_server, claude_tools, contexts, connects,
                   max_iterations, ci_mode, iterations, response, result, model_calls>>

\* run, after the loop: the regression flag, disconnect_all, the result.
Cleanup ==
    /\ pc = "CLEANUP"
    /\ UNCHANGED pipe_vars
    /\ \E failing \in ReleaseFailures(contexts) :
       \E r \in {disconnect_all(Mgr, failing)} :
          /\ SetMgr(r.m)
          /\ last' = DisconnectRecord(Mgr, failing, r)
          /\ IF r.raised
             THEN /\ pc' = "raised"
                  /\ exit' = "exception"
                  /\ UNCHANGED result
             ELSE /\ result' = AgentResult(final_response, total_tool_calls, iterations,
                                           regression(ci_mode, final_response))
                  /\ pc' = "returned"
                  /\ UNCHANGED exit
    /\ UNCHANGED <<connects, max_iterations, ci_mode, conversation, total_tool_calls,
                   iterations, final_response, response, tool_results, model_calls,
                   tool_calls_issued>>

NextAgent == RunStart \/ ModelCall \/ ExecTool \/ Cleanup

SpecAgent == InitAgent /\ [][NextAgent]_vars

\* ------------- SpecRuns: PerformanceAgent.run called again on the instance
\* The connect_all inputs of SpecRuns: a provider fails to launch, or connects
\* and lists its operations or none.
RunsConnectInputs ==
    {f \in ConnectInputs : \A srv \in Servers : f[srv].fail \in {"none", "launch"}}

InitRuns ==
    /\ MgrInit
    /\ PipeInit(TestRunConfig(Absent, Absent, None, None, FALSE))
    /\ AgentInit(MaxRunIterations, FALSE)

\* run, up to the loop, on an instance in the state __init__ or an earlier run
\* left it in: the attributes conversation and total_tool_calls are those of
\* the instance, everything else is local to the call.
RunsStart ==
    /\ pc \in {"idle", "returned"}
    /\ connects < MaxConnects
    /\ UNCHANGED pipe_vars
    /\ model_calls' = 0
    /\ tool_calls_issued' = 0
    /\ response' = None
    /\ tool_results' = <<>>
    /\ iterations' = 0
    /\ final_response' = <<>>
    /\ \E outcomes \in RunsConnectInputs :
       \E r \in {connect_all(Mgr, connects + 1, outcomes)} :
          /\ SetMgr(r.m)
          /\ connects' = connects + 1
          /\ last' = ConnectRecord(Mgr, outcomes, r)
          /\ IF r.raised
             THEN /\ pc' = "raised"
                  /\ exit' = "exception"
                  /\ UNCHANGED <<conversation, result>>
             ELSE /\ conversation' = Append(conversation, UserMessage)
                  /\ IF no_tools(r.m.claude_tools)
                     THEN /\ result' = AgentResult(NoToolsMessage, 0, 0, FALSE)
                          /\ pc' = "returned"
                          /\ exit' = "no_tools"
                     ELSE /\ pc' = loop_head(0, max_iterations)
                          /\ exit' = IF loop_cond(0, max_iterations) THEN None ELSE "cutoff"
                          /\ UNCHANGED result
    /\ UNCHANGED <<max_iterations, ci_mode, total_tool_calls>>

NextRuns == RunsStart \/ ModelCall \/ ExecTool \/ Cleanup

SpecRuns == InitRuns /\ [][NextRuns]_vars

\* -------------------------- SpecPipeline: DeterministicPipeline.run
InitPipeline ==
    /\ MgrInit
    /\ AgentInit(MaxIterations, FALSE)
    /\ \E users \in RequestedLoads, duration \in RequestedLoads,
          baseline \in {None, "base"}, save_as \in {None, "new"} :
          PipeInit(TestRunConfig(users, duration, baseline, save_as, FALSE))

\* One await mcp.call_tool(name, args) made by a pipeline step.
Invoke(name, args, o, call) ==
    /\ last' = CallRecord(Mgr, name, o, call)
    /\ invoked' = Append(invoked, [name |-> name, args |-> args])
    /\ UNCHANGED <<connected_servers, tool_to_server, claude_tools, contexts, connects>>
    /\ UNCHANGED <<agent_vars, cfg>>

\* The step raises: the exception leaves run.
Raise(exc) ==
    /\ p_pc' = "raised"
    /\ p_raised' = exc
    /\ UNCHANGED <<locals, p_result>>

\* The step returns and run goes on at position next.
Goto(next, new_locals) ==
    /\ p_pc' = next
    /\ locals' = new_locals
    /\ UNCHANGED <<p_result, p_raised>>

\* The caller connects the manager it hands to DeterministicPipeline(mcp, config)
\* and awaits run().
Setup ==
    /\ p_pc = "idle"
    /\ \E f \in PipelineConnectInputs :
       \E r \in {connect_all(Mgr, connects + 1, PipelineConnectOutcome(f))} :
          /\ SetMgr(r.m)
          /\ connects' = connects + 1
          /\ last' = ConnectRecord(Mgr, PipelineConnectOutcome(f), r)
    /\ p_pc' = "discover"
    /\ UNCHANGED <<agent_vars, cfg, locals, p_result, p_raised, invoked>>

\* step 1: discovery = await self._discover()
Discover ==
    /\ p_pc = "discover"
    /\ \E o \in ToolOutcomes("discover_endpoints", discover_args(cfg)) :
       \E r \in {_discover(Mgr, cfg, o)} :
          /\ Invoke("discover_endpoints", discover_args(cfg), o, r.call)
          /\ IF r.raised # None THEN Raise(r.raised)
             ELSE Goto("generate", [locals EXCEPT !.discovery = r.ret])

\* step 2: script = await self._generate_script(discovery)
GenerateScript ==
    /\ p_pc = "generate"
    /\ \E o \in ToolOutcomes("generate_k6_script", script_args(cfg, locals.discovery)) :
       \E r \in {_generate_script(Mgr, cfg, o)} :
          /\ Invoke("generate_k6_script", script_args(cfg, locals.discovery), o, r.call)
          /\ IF r.raised # None THEN Raise(r.raised)
             ELSE Goto("snap_before", [locals EXCEPT !.script = r.ret])

\* step 3: snap_before = await take_snapshot(..., "before", ...)
SnapshotBefore ==
    /\ p_pc = "snap_before"
    /\ \E o \in ToolOutcomes("snapshot_metrics", snapshot_args(cfg, locals.discovery, "before")) :
       \E r \in {take_snapshot(Mgr, o)} :
          /\ Invoke("snapshot_metrics", snapshot_args(cfg, locals.discovery, "before"),
                    o, r.call)
          /\ IF r.raised # None THEN Raise(r.raised)
             ELSE Goto("run", [locals EXCEPT !.snap_before = r.ret])

\* step 4: run_result = await call_tool_safe(self.mcp, "run_k6_test", ...)
RunTest ==
    /\ p_pc = "run"
    /\ \E o \in ToolOutcomes("run_k6_test", run_args(locals.script)) :
       \E r \in {safe_get(Mgr, "run_k6_test", o)} :
          /\ Invoke("run_k6_test", run_args(locals.script), o, r.call)
          /\ IF r.raised # None THEN Raise(r.raised)
             ELSE Goto("snap_after",
                       [locals EXCEPT !.run_result = r.ret,
                                      !.results_file = Get(r.ret, "results_file", "")])

\* step 5: snap_after = await take_snapshot(..., "after", ...)
SnapshotAfter ==
    /\ p_pc = "snap_after"
    /\ \E o \in ToolOutcomes("snapshot_metrics", snapshot_args(cfg, locals.discovery, "after")) :
       \E r \in {take_snapshot(Mgr, o)} :
          /\ Invoke("snapshot_metrics", snapshot_args(cfg, locals.discovery, "after"),
                    o, r.call)
          /\ IF r.raised # None THEN Raise(r.raised)
             ELSE Goto("analyze", [locals EXCEPT !.snap_after = r.ret])

\* Where _analyze goes after the analysis, and after the comparison.
after_compare_always_save(config) == "save"
after_compare(config) == IF config.save_as # None THEN "save" ELSE "report"
after_analysis(config) == IF config.baseline # None THEN "compare" ELSE after_compare(config)

\* step 6, _analyze: analysis = await call_tool_safe(self.mcp, "analyze_results", ...)
Analyze ==
    /\ p_pc = "analyze"
    /\ \E o \in ToolOutcomes("analyze_results", [results_file |-> locals.results_file]) :
       \E r \in {safe_get(Mgr, "analyze_results", o)} :
          /\ Invoke("analyze_results", [results_file |-> locals.results_file], o, r.call)
          /\ IF r.raised # None THEN Raise(r.raised)
             ELSE Goto(after_analysis(cfg),
                       [locals EXCEPT !.analysis = r.ret, !.verdict = "PASS"])

\* _analyze, if cfg.baseline: comparison = await call_tool_safe(..., "compare_baseline", ...)
Compare ==
    /\ p_pc = "compare"
    /\ \E o \in ToolOutcomes("compare_baseline", compare_args(cfg, locals.results_file)) :
       \E r \in {safe_get(Mgr, "compare_baseline", o)} :
          /\ Invoke("compare_baseline", compare_args(cfg, locals.results_file), o, r.call)
          /\ IF r.raised # None THEN Raise(r.raised)
             ELSE Goto(after_compare(cfg),
                       [locals EXCEPT !.comparison = r.ret,
                                      !.verdict = adopt_verdict(r.ret)])

\* _analyze, if cfg.save_as: await call_tool_safe(..., "save_baseline", ...)
SaveBaseline ==
    /\ p_pc = "save"
    /\ \E o \in ToolOutcomes("save_baseline", save_args(cfg, locals.results_file)) :
       \E r \in {safe_pass(Mgr, "save_baseline", o)} :
          /\ Invoke("save_baseline", save_args(cfg, locals.results_file), o, r.call)
          /\ IF r.raised # None THEN Raise(r.raised)
             ELSE Goto("report", locals)

\* _analyze: report = await call_tool_safe(..., "generate_report", ...), and
\* run's return PipelineResult(...)
Report ==
    /\ p_pc = "report"
    /\ \E o \in ToolOutcomes("generate_report",
                             report_args(cfg, locals.results_file, locals.snap_before,
                                         locals.snap_after)) :
       \E r \in {safe_pass(Mgr, "generate_report", o)} :
          /\ Invoke("generate_report",
                    report_args(cfg, locals.results_file, locals.snap_before,
                                locals.snap_after), o, r.call)
          /\ IF r.raised # None THEN Raise(r.raised)
             ELSE /\ p_pc' = "returned"
                  /\ locals' = [locals EXCEPT !.report = r.ret]
                  /\ p_result' = PipelineResult(locals.analysis, locals.comparison,
                                                r.ret, locals.verdict)
                  /\ UNCHANGED p_raised

NextPipeline ==
    \/ Setup \/ Discover \/ GenerateScript \/ SnapshotBefore \/ RunTest
    \/ SnapshotAfter \/ Analyze \/ Compare \/ SaveBaseline \/ Report

SpecPipeline == InitPipeline /\ [][NextPipeline]_vars

\* ---------------------------- SpecMain: main.py, test._run_pipeline
\* The CLI resolves users and duration with "x or (int(env) or None)": a
\* request of 0 has become None before _run_pipeline starts.
InitMain ==
    /\ MgrInit
    /\ AgentInit(MaxIterations, FALSE)
    /\ \E users \in {Absent, Some(MaxLoad)},
          baseline \in {None, "base"}, save_as \in {None, "new"}, ci \in BOOLEAN :
          PipeInit(TestRunConfig(users, Absent, baseline, save_as, ci))

\* The outcome of a step inside the try block: an exception and "return None"
\* both lead to the finally clause.
MainStep(r, next, new_locals) ==
    IF r.raised # None
    THEN /\ p_pc' = "finally"
         /\ p_raised' = r.raised
         /\ UNCHANGED <<locals, p_result>>
    ELSE IF r.returned
    THEN /\ p_pc' = "finally"
         /\ UNCHANGED <<locals, p_result, p_raised>>
    ELSE /\ p_pc' = next
         /\ locals' = new_locals
         /\ UNCHANGED <<p_result, p_raised>>

\* mcp = MCPClientManager(); await mcp.connect_all()
MainConnect ==
    /\ p_pc = "idle"
    /\ \E f \in PipelineConnectInputs :
       \E r \in {connect_all(Mgr, connects + 1, PipelineConnectOutcome(f))} :
          /\ SetMgr(r.m)
          /\ connects' = connects + 1
          /\ last' = ConnectRecord(Mgr, PipelineConnectOutcome(f), r)
    /\ p_pc' = "discover"
    /\ UNCHANGED <<agent_vars, cfg, locals, p_result, p_raised, invoked>>

MainDiscover ==
    /\ p_pc = "discover"
    /\ \E o \in ToolOutcomes("discover_endpoints", discover_args(cfg)) :
       \E r \in {main_discover(Mgr, cfg, o)} :
          /\ Invoke("discover_endpoints", discover_args(cfg), o, r.call)
          /\ MainStep(r, "generate", [locals EXCEPT !.discovery = r.ret])

MainGenerate ==
    /\ p_pc = "generate"
    /\ \E o \in ToolOutcomes("generate_k6_script", script_args(cfg, locals.discovery)) :
       \E r \in {main_generate(Mgr, cfg, o)} :
          /\ Invoke("generate_k6_script", script_args(cfg, locals.discovery), o, r.call)
          /\ MainStep(r, "snap_before", [locals EXCEPT !.script = r.ret])

MainSnapshotBefore ==
    /\ p_pc = "snap_before"
    /\ \E o \in ToolOutcomes("snapshot_metrics", snapshot_args(cfg, locals.discovery, "before")) :
       \E r \in {main_snapshot(Mgr, o)} :
          /\ Invoke("snapshot_metrics", snapshot_args(cfg, locals.discovery, "before"),
                    o, r.call)
          /\ MainStep(r, "run", [locals EXCEPT !.snap_before = r.ret])

\* step 4: run_result = json.loads(raw); no test for "error"
MainRunTest ==
    /\ p_pc = "run"
    /\ \E o \in ToolOutcomes("run_k6_test", run_args(locals.script)) :
       \E r \in {main_get(Mgr, "run_k6_test", o)} :
          /\ Invoke("run_k6_test", run_args(locals.script), o, r.call)
          /\ MainStep(r, "snap_after",
                      [locals EXCEPT !.run_result = r.ret,
                                     !.results_file = Get(r.ret, "results_file", "")])

MainSnapshotAfter ==
    /\ p_pc = "snap_after"
    /\ \E o \in ToolOutcomes("snapshot_metrics", snapshot_args(cfg, locals.discovery, "after")) :
       \E r \in {main_snapshot(Mgr, o)} :
          /\ Invoke("snapshot_metrics", snapshot_args(cfg, locals.discovery, "after"),
                    o, r.call)
          /\ MainStep(r, "analyze", [locals EXCEPT !.snap_after = r.ret])

MainAnalyze ==
    /\ p_pc = "analyze"
    /\ \E o \in ToolOutcomes("analyze_results", [results_file |-> locals.results_file]) :
       \E r \in {main_print(Mgr, cfg, "analyze_results", o)} :
          /\ Invoke("analyze_results", [results_file |-> locals.results_file], o, r.call)
          /\ MainStep(r, after_analysis(cfg),
                      [locals EXCEPT !.analysis = r.ret, !.verdict = "PASS"])

MainCompare ==
    /\ p_pc = "compare"
    /\ \E o \in ToolOutcomes("compare_baseline", compare_args(cfg, locals.results_file)) :
       \E r \in {main_get(Mgr, "compare_baseline", o)} :
          /\ Invoke("compare_baseline", compare_args(cfg, locals.results_file), o, r.call)
          /\ MainStep(r, after_compare(cfg),
                      [locals EXCEPT !.comparison = r.ret,
                                     !.verdict = adopt_verdict(r.ret)])

\* await mcp.call_tool("save_baseline", ...): the returned text is dropped
MainSave ==
    /\ p_pc = "save"
    /\ \E o \in ToolOutcomes("save_baseline", save_args(cfg, locals.results_file)) :
       \E call \in {call_tool(Mgr, "save_baseline", o)} :
          /\ Invoke("save_baseline", save_args(cfg, locals.results_file), o, call)
          /\ p_pc' = "report"
          /\ UNCHANGED <<locals, p_result, p_raised>>

\* generate_report and the return of the result dict
MainReport ==
    /\ p_pc = "report"
    /\ \E o \in ToolOutcomes("generate_report",
                             report_args(cfg, locals.results_file, locals.snap_before,
                                         locals.snap_after)) :
       \E r \in {main_load(Mgr, "generate_report", o)} :
          /\ Invoke("generate_report",
                    report_args(cfg, locals.results_file, locals.snap_before,
                                locals.snap_after), o, r.call)
          /\ p_pc' = "finally"
          /\ IF r.raised # None
             THEN /\ p_raised' = r.raised
                  /\ UNCHANGED <<locals, p_result>>
             ELSE /\ locals' = [locals EXCEPT !.report = r.ret]
                  /\ p_result' = PipelineResult(locals.analysis, locals.comparison,
                                                r.ret, locals.verdict)
                  /\ UNCHANGED p_raised

\* finally: await mcp.disconnect_all(); then the pending return or exception
MainFinally ==
    /\ p_pc = "finally"
    /\ \E failing \in {{}, Range(contexts)} :
       \E r \in {disconnect_all(Mgr, failing)} :
          /\ SetMgr(r.m)
          /\ last' = DisconnectRecord(Mgr, failing, r)
    /\ p_pc' = IF p_raised # None THEN "raised" ELSE "returned"
    /\ UNCHANGED <<connects, agent_vars, cfg, locals, p_result, p_raised, invoked>>

NextMain ==
    \/ MainConnect \/ MainDiscover \/ MainGenerate \/ MainSnapshotBefore
    \/ MainRunTest \/ MainSnapshotAfter \/ MainAnalyze \/ MainCompare
    \/ MainSave \/ MainReport \/ MainFinally

SpecMain == InitMain /\ [][NextMain]_vars

\* ======================================================= properties
\* The tools connect_all must return for the given connection outcomes: the
\* converted listings of the providers that did not fail, in configuration order.
RECURSIVE ExpectedTools(_, _)
ExpectedTools(outcomes, i) ==
    IF i > Len(server_configs) THEN <<>>
    ELSE LET o == outcomes[server_configs[i]]
         IN (IF o.fail = "none"
             THEN [j \in 1..Len(o.tools) |-> claude_tool(o.tools[j])]
             ELSE <<>>) \o ExpectedTools(outcomes, i + 1)

ManagerEmpty ==
    /\ DOMAIN tool_to_server = {}
    /\ DOMAIN connected_servers = {}
    /\ claude_tools = <<>>
    /\ contexts = <<>>

\* C1: connect_all never short-circuits: whatever providers fail, at whatever
\* stage, it does not raise, attempts every configured provider in
\* configuration order, and returns exactly the tools of the providers that
\* connected.
C1_NoShortCircuit ==
    last.op = "connect_all" =>
        /\ ~last.raised
        /\ last.attempted = server_configs
        /\ last.ret = ExpectedTools(last.input, 1)
        /\ claude_tools = last.ret

\* C1 witness: the first provider failed its handshake, the second connected
\* and its tools were returned.
C1_Witness ==
    /\ last.op = "connect_all"
    /\ last.input["s1"].fail = "initialize"
    /\ last.input["s2"].fail = "none"
    /\ Len(last.ret) = 2

\* C2: call_tool on a name that is not in the registry returns the structured
\* payload with error "Unknown tool: <name>", does not raise and dispatches
\* nothing to any session.
C2_UnknownTool ==
    (last.op = "call_tool" /\ ~Has(last.before.tool_to_server, last.arg)) =>
        /\ ~last.raised
        /\ last.ret = error_payload(<<"Unknown tool: ", last.arg>>)
        /\ last.dispatched = <<>>

\* C2 witness: an unregistered name asked of a manager that has other names
\* registered.
C2_Witness ==
    /\ last.op = "call_tool"
    /\ last.arg = "nope"
    /\ Has(tool_to_server, "t1")
    /\ ~Has(tool_to_server, "nope")

\* C3: when the provider call raises, call_tool does not raise: it returns the
\* structured error payload carrying the exception message, and the registry,
\* the provider map, the cached tool list and the held resources are unchanged.
C3_CallToolNonThrowing ==
    (last.op = "call_tool" /\ last.dispatched # <<>> /\ last.input.raises) =>
        /\ ~last.raised
        /\ last.ret = error_payload(<<"Tool call failed: ", last.input.exc>>)
        /\ Mgr = last.before

\* C3 witness: a dispatched call whose provider raised.
C3_Witness ==
    /\ last.op = "call_tool"
    /\ last.dispatched # <<>>
    /\ last.input.raises
    /\ contexts # <<>>

\* C4: after disconnect_all returns, the registry, the provider map, the cached
\* tool list and the held-resource list are all empty, whatever happened before.
C4_Teardown ==
    (last.op = "disconnect_all" /\ ~last.raised) => ManagerEmpty

\* C4 witness: a disconnect_all of a manager that held registrations and
\* resources, with a release that failed.
C4_Witness ==
    /\ last.op = "disconnect_all"
    /\ DOMAIN last.before.tool_to_server # {}
    /\ last.before.contexts # <<>>
    /\ last.errors > 0

\* Acquisition order of resources, from what they are: an earlier connect_all
\* first, then the earlier provider, then the transport before the session.
ServerIndex(s) == CHOOSE i \in 1..Len(server_configs) : server_configs[i] = s

AcquiredBefore(a, b) ==
    \/ a.cycle < b.cycle
    \/ a.cycle = b.cycle /\ ServerIndex(a.server) < ServerIndex(b.server)
    \/ a.cycle = b.cycle /\ a.server = b.server /\ a.kind = "stdio" /\ b.kind = "session"

\* C5: disconnect_all attempts the releases in strict reverse order of
\* acquisition: of two held resources, the one acquired later is released
\* first (a session before its transport, later providers before earlier ones).
C5_ReverseRelease ==
    last.op = "disconnect_all" =>
        /\ \A p, q \in 1..Len(last.before.contexts) :
              p < q =>
                 \E i, j \in 1..Len(last.released) :
                    /\ i < j
                    /\ last.released[i] = last.before.contexts[q]
                    /\ last.released[j] = last.before.contexts[p]
        /\ \A i, j \in 1..Len(last.released) :
              i < j => AcquiredBefore(last.released[j], last.released[i])

\* C5 witness: both providers' transports and sessions were held and released.
C5_Witness ==
    /\ last.op = "disconnect_all"
    /\ Len(last.released) = 4
    /\ last.released[1].server = "s2"
    /\ last.released[4].server = "s1"

\* C6: when a release raises, disconnect_all still attempts the release of
\* every held resource, still clears the registry and the caches, and does not
\* raise.
C6_BestEffortTeardown ==
    (last.op = "disconnect_all" /\ last.input # {}) =>
        /\ ~last.raised
        /\ Len(last.released) = Len(last.before.contexts)
        /\ Range(last.released) = Range(last.before.contexts)
        /\ ManagerEmpty

\* C6 witness: the first release raised and three more resources were held.
C6_Witness ==
    /\ last.op = "disconnect_all"
    /\ Len(last.before.contexts) = 4
    /\ last.input = {last.released[1]}
    /\ last.errors = 1

\* C7: a run issues at most max_iterations reasoning-service calls, and the
\* iteration count it returns does not exceed max_iterations.
C7_IterationBound ==
    /\ model_calls <= max_iterations
    /\ pc = "returned" => result.iterations <= max_iterations

\* C7 witness: a run cut off at the bound after turns that requested more
\* tool invocations than there were iterations.
C7_Witness ==
    /\ pc = "returned"
    /\ exit = "cutoff"
    /\ max_iterations = 2
    /\ model_calls = 2
    /\ result.iterations = 2
    /\ tool_calls_issued = 4

\* C8: however run finishes, disconnect_all has been invoked before it
\* finishes and no resource acquired by connect_all remains held.
C8_AlwaysDisconnects ==
    pc \in {"returned", "raised"} =>
        /\ last.op = "disconnect_all"
        /\ contexts = <<>>

\* C9: run never finishes by propagating an exception: it always returns an
\* AgentResult.
C9_NeverThrows == pc # "raised"

\* C10: when connect_all discovered no tools, run returns at once with
\* iterations = 0, tool_calls_made = 0 and the fixed diagnostic message, having
\* issued no reasoning-service call and no tool call.
C10_ZeroToolsGuard ==
    (pc # "idle" /\ last.op = "connect_all" /\ ~last.raised /\ Len(last.ret) = 0) =>
        /\ pc = "returned"
        /\ result.response = NoToolsMessage
        /\ result.iterations = 0
        /\ result.tool_calls_made = 0
        /\ model_calls = 0
        /\ tool_calls_issued = 0

\* C10 witness: a provider connected but listed no tools, and run returned by
\* the guard.
C10_Witness ==
    /\ pc = "returned"
    /\ exit = "no_tools"
    /\ DOMAIN connected_servers # {}
    /\ result.iterations = 0


\* ------------------------------------------------ the deterministic pipeline
\* The operation the pipeline invoked last.
LastInvoked == invoked[Len(invoked)].name

\* The names of the operations invoked so far, in order.
InvokedNames == [i \in 1..Len(invoked) |-> invoked[i].name]

\* How often an operation has been invoked in the run.
Count(name) == Cardinality({i \in 1..Len(invoked) : invoked[i].name = name})

\* C11: in DeterministicPipeline.run a failed snapshot (step 3 or 5), whatever
\* the failure, is recorded as an absent path and never stops the run: run does
\* not raise out of a snapshot step.
C11_SnapshotDegrades ==
    ~(p_pc = "raised" /\ invoked # <<>> /\ LastInvoked = "snapshot_metrics")


\* The operations of the fail-fast steps 1, 2 and 4.
FailFastOps == {"discover_endpoints", "generate_k6_script", "run_k6_test"}

\* The response carries an error marker (an error payload of the manager or an
\* error object of the provider).
ErrorMarker(raw) ==
    LET j == json_loads(raw) IN j.raised = None /\ has_error(j)

\* The response is an object without any endpoint.
ZeroEndpoints(raw) ==
    LET j == json_loads(raw)
    IN  j.raised = None /\ j.kind = "dict" /\ Get(j.value, "endpoints", <<>>) = <<>>

\* The latest call was a fail-fast step that failed.
FailFastFailure ==
    /\ invoked # <<>>
    /\ LastInvoked \in FailFastOps
    /\ last.op = "call_tool"
    /\ \/ ErrorMarker(last.ret)
       \/ LastInvoked = "discover_endpoints" /\ ZeroEndpoints(last.ret)

\* C12: in DeterministicPipeline.run a failure of discovery (error marker or
\* zero endpoints), of generation or of the load run makes run raise without a
\* result, and once run has raised no further operation is invoked.
C12_FailFast ==
    /\ [](FailFastFailure => p_pc = "raised" /\ p_result = None)
    /\ [][p_pc = "raised" => invoked' = invoked]_vars

\* The load run (step 4) answered with an error marker after three successful
\* steps, and run raised with nothing invoked after it.
C12_Witness ==
    /\ p_pc = "raised"
    /\ InvokedNames = <<"discover_endpoints", "generate_k6_script",
                        "snapshot_metrics", "run_k6_test">>
    /\ last.op = "call_tool"
    /\ ErrorMarker(last.ret)
    /\ p_raised = "ToolCallError"


\* C13: in main.py's _run_pipeline the load run is fail-fast: when run_k6_test
\* answered with an error payload, the analysis is never invoked (the analysis
\* is invoked only after a load run whose response carries no error marker).
C13_RunExecutionFailFast ==
    "analyze_results" \in Range(InvokedNames) => ~Has(locals.run_result, "error")


\* The arguments sent to the generation step (always the second invocation).
GenerationArgs == invoked[2].args

\* The effective value is the maximum when the request exceeds it and the
\* request otherwise.
Capped(requested, maximum, eff) ==
    requested # Absent =>
        eff = IF requested[1] > maximum THEN maximum ELSE requested[1]

\* C14: for every non-negative requested value (0 included) and every
\* discovered maximum, the value sent to generate_k6_script is the maximum when
\* requested > maximum and the requested value otherwise, for users and for
\* duration independently.
C14_Capping ==
    Len(invoked) >= 2 =>
        /\ Capped(cfg.users, GenerationArgs.max_concurrent_users,
                  GenerationArgs.virtual_users)
        /\ Capped(cfg.duration, GenerationArgs.max_duration_seconds,
                  GenerationArgs.duration_seconds)


\* The response is an object that carries a verdict and no error marker.
ReturnsVerdict(raw) ==
    LET j == json_loads(raw)
    IN  j.raised = None /\ j.kind = "dict" /\ ~Has(j.value, "error")
        /\ Has(j.value, "verdict")

\* Operation a was invoked, and operation b later.
InvokedBefore(a, b) ==
    \E i, j \in 1..Len(invoked) :
        i < j /\ invoked[i].name = a /\ invoked[j].name = b

C16_PersistenceBestEffort ==
    (/\ invoked # <<>>
     /\ LastInvoked = "save_baseline"
     /\ last.op = "call_tool"
     /\ ErrorMarker(last.ret)) =>
        p_pc = "report" /\ p_raised = None

\* The analysis step of the run has succeeded (it assigns the default verdict).
AnalysisSucceeded == locals.verdict # None

\* C17: in every pipeline run in which the analysis succeeded, generate_report
\* is invoked exactly once by the time the run ends, whatever the optional
\* comparison and persistence did.
C17_ReportAlways ==
    (p_pc \in {"returned", "raised"} /\ AnalysisSucceeded) =>
        Count("generate_report") = 1


\* ------------------------------------------------ registry and dispatch
\* The providers that connected in the latest connect_all, and the names a
\* provider listed in it.
ConnectedInCycle == {s \in Servers : last.input[s].fail = "none"}

ListedInCycle(s) == {last.input[s].tools[i].name : i \in 1..Len(last.input[s].tools)}

ToolsInCycle == UNION {ListedInCycle(s) : s \in ConnectedInCycle}

\* C18: after any connect_all, a second one without a disconnect_all in
\* between included, the provider map holds exactly the providers that
\* connected in that cycle and the registry exactly the names they listed.
C18_RegistryRebuilt ==
    last.op = "connect_all" =>
        /\ DOMAIN connected_servers = ConnectedInCycle
        /\ DOMAIN tool_to_server = ToolsInCycle

\* The providers of one connect_all cycle that listed the name, and the one of
\* them that comes last in configuration order.
ListersInCycle(n) == {s \in ConnectedInCycle : n \in ListedInCycle(s)}

LastLister(n) ==
    CHOOSE s \in ListersInCycle(n) :
        \A t \in ListersInCycle(n) : ServerIndex(t) <= ServerIndex(s)

\* The names of the tools a connected provider holds.
ToolNames(server) == {server.tools[i].name : i \in 1..Len(server.tools)}

\* In manager m providers a and b hold sessions of the same connect_all cycle
\* and both expose the name.
Collide(m, a, b, n) ==
    /\ Has(m.connected_servers, a) /\ Has(m.connected_servers, b)
    /\ m.connected_servers[a].session.cycle = m.connected_servers[b].session.cycle
    /\ n \in ToolNames(m.connected_servers[a])
    /\ n \in ToolNames(m.connected_servers[b])

\* C19: a name exposed by two providers that both connected is last-wins:
\* connect_all raises nothing and binds the name to the provider that comes
\* later in configuration order, and call_tool dispatches the name to that
\* provider's session and to no other.
C19_LastWins ==
    /\ last.op = "connect_all" =>
          /\ ~last.raised
          /\ \A n \in ToolsInCycle :
                Cardinality(ListersInCycle(n)) >= 2 => tool_to_server[n] = LastLister(n)
    /\ last.op = "call_tool" =>
          \A a, b \in Servers :
             (ServerIndex(a) < ServerIndex(b) /\ Collide(last.before, a, b, last.arg)) =>
                last.dispatched =
                    <<[session |-> last.before.connected_servers[b].session,
                       tool |-> last.arg]>>

\* "t2", exposed by both providers of one cycle, was called and went to the
\* session of "s2" alone.
C19_Witness ==
    /\ last.op = "call_tool"
    /\ last.arg = "t2"
    /\ Collide(last.before, "s1", "s2", "t2")
    /\ Len(last.dispatched) = 1
    /\ last.dispatched[1].session.server = "s2"


\* The payload is a structured error whose message names the provider.
NamesProvider(ret, s) ==
    ret.kind = "json" /\ \E i \in 1..Len(ret.error) : ret.error[i] = s

\* C20: when the provider that owns a tool is registered but its session is no
\* longer connected (the session has ended since connect), call_tool returns a
\* structured error payload that names the provider.
C20_NotConnectedNamesProvider ==
    (/\ last.op = "call_tool"
     /\ Has(last.before.tool_to_server, last.arg)
     /\ last.dispatched # <<>>
     /\ last.input.raises
     /\ last.input.exc = "closed") =>
        /\ ~last.raised
        /\ NamesProvider(last.ret, last.before.tool_to_server[last.arg])


\* ------------------------------------------------ the reasoning loop
\* The tool calls the latest model turn asked for.
TurnCalls == tool_calls_of(response.content)

\* The assistant messages in the conversation.
AssistantTurns ==
    Cardinality({i \in 1..Len(conversation) : conversation[i].role = "assistant"})

\* The results collected so far answer the first calls of the turn, in order.
ResultsInOrder ==
    /\ Len(tool_results) <= Len(TurnCalls)
    /\ \A i \in 1..Len(tool_results) : tool_results[i].tool_use_id = TurnCalls[i].id

\* C21: the tool calls of a turn are executed one at a time in the order the
\* model returned them, a step of the run issues at most one call (tool call
\* or reasoning-service call), and the next reasoning-service call is issued
\* only once every call of the current turn has its result.
C21_Sequential ==
    /\ [](pc = "EXECUTING_TOOLS" =>
            /\ ResultsInOrder
            /\ Len(tool_results) < Len(TurnCalls))
    /\ []((pc = "AWAITING_MODEL" /\ AssistantTurns > 0) =>
            /\ ResultsInOrder
            /\ Len(tool_results) = Len(TurnCalls))
    /\ [][/\ (model_calls' - model_calls) + (tool_calls_issued' - tool_calls_issued) <= 1
          /\ tool_calls_issued' = tool_calls_issued + 1 =>
                /\ pc = "EXECUTING_TOOLS"
                /\ last'.arg = TurnCalls[Len(tool_results) + 1].name
          /\ model_calls' = model_calls + 1 => pc = "AWAITING_MODEL"]_vars

\* The second call of a two-call turn has been executed after the first, and
\* the loop is back at the reasoning service with both results.
C21_Witness ==
    /\ pc = "AWAITING_MODEL"
    /\ AssistantTurns = 1
    /\ Len(TurnCalls) = 2
    /\ Len(tool_results) = 2
    /\ tool_calls_issued = 2
    /\ last.arg = "nope"


\* The text fragments of content[i..], each but the last followed by a newline.
RECURSIVE Lines(_, _)
Lines(content, i) ==
    IF i > Len(content) THEN <<>>
    ELSE IF content[i].type # "text" THEN Lines(content, i + 1)
    ELSE content[i].text
         \o (IF \E j \in (i + 1)..Len(content) : content[j].type = "text"
             THEN <<"\n">> ELSE <<>>)
         \o Lines(content, i + 1)

\* The latest turn is terminal and has been handled: it asked for no tool, or
\* it was marked end_turn and the results of its tool calls have been appended.
TerminalTurn ==
    /\ AssistantTurns > 0
    /\ \/ /\ TurnCalls = <<>>
          /\ conversation[Len(conversation)].role = "assistant"
       \/ /\ TurnCalls # <<>>
          /\ response.stop_reason = "end_turn"
          /\ conversation[Len(conversation)].role = "user"
          /\ Len(tool_results) = Len(TurnCalls)

\* C22: once a turn without tool calls is received, or a turn marked end_turn
\* has had its tool calls executed, the final response of the run is the text
\* fragments of that turn joined by newlines in their order, and no further
\* call to the reasoning service (or to a tool) is issued.
C22_TerminalExtraction ==
    /\ [](TerminalTurn =>
            /\ pc \in {"CLEANUP", "returned", "raised"}
            /\ final_response = Lines(response.content, 1)
            /\ pc = "returned" => result.response = Lines(response.content, 1))
    /\ [][TerminalTurn =>
            /\ model_calls' = model_calls
            /\ tool_calls_issued' = tool_calls_issued]_vars

\* A turn marked end_turn with two text fragments around a tool call has been
\* handled and the run has returned both fragments.
C22_Witness ==
    /\ TerminalTurn
    /\ pc = "returned"
    /\ TurnCalls # <<>>
    /\ result.response = <<"o", "k", "\n", "F", "a", "i", "l">>


\* The four letters of the failure marker, in either case, occur in a row.
HasFailMarker(text) ==
    \E i \in 1..Len(text) :
        /\ i + 3 <= Len(text)
        /\ text[i] \in {"F", "f"}
        /\ text[i + 1] \in {"A", "a"}
        /\ text[i + 2] \in {"I", "i"}
        /\ text[i + 3] \in {"L", "l"}

\* C23: has_regression of the returned result is true if and only if the
\* controller runs in CI mode and the final response contains the marker
\* "FAIL" under case-insensitive matching; outside CI mode it is false.
C23_RegressionFlag ==
    pc = "returned" =>
        /\ result.has_regression = (ci_mode /\ HasFailMarker(result.response))
        /\ ~ci_mode => ~result.has_regression

\* A CI run has returned a response that holds the marker in mixed case and is
\* flagged.
C23_Witness ==
    /\ pc = "returned"
    /\ ci_mode
    /\ result.response = <<"F", "a", "i", "l">>
    /\ result.has_regression


\* max_iterations turns have been received, the latest one asked for tools
\* without end_turn, and the results of its tool calls have been appended.
CutOffTurn ==
    /\ max_iterations > 0
    /\ AssistantTurns = max_iterations
    /\ TurnCalls # <<>>
    /\ response.stop_reason = "tool_use"
    /\ conversation[Len(conversation)].role = "user"
    /\ Len(tool_results) = Len(TurnCalls)

\* C24: when max_iterations turns in a row asked for tools without end_turn,
\* the run ends normally once the tools of the last turn were executed: it goes
\* to its cleanup and returns, with iterations = max_iterations and the final
\* response accumulated so far, which is the empty string because no turn of
\* such a run assigns it.
C24_SoftCutoff ==
    /\ [](CutOffTurn =>
            /\ pc \in {"CLEANUP", "returned"}
            /\ iterations = max_iterations
            /\ model_calls = max_iterations
            /\ final_response = <<>>
            /\ pc = "returned" =>
                  /\ result.iterations = max_iterations
                  /\ result.response = <<>>)
    /\ [][CutOffTurn => pc' = "returned"]_vars

\* A run bounded by two iterations was cut off after two turns whose tool
\* calls were executed, the second turn also carrying text.
C24_Witness ==
    /\ CutOffTurn
    /\ pc = "returned"
    /\ max_iterations = 2
    /\ Len(response.content) = 3
    /\ tool_calls_issued >= 2
    /\ result.iterations = 2


\* C25: when a reasoning-service call fails with an API error the loop ends at
\* once with a diagnostic final response: no assistant message is appended for
\* that call, and the run issues no further reasoning-service call or tool
\* call.
C25_ApiErrorTerminal ==
    /\ [](exit = "api_error" =>
            /\ pc \in {"CLEANUP", "returned"}
            /\ AssistantTurns = model_calls - 1
            /\ final_response = <<"Claude API error: ", "overloaded">>
            /\ pc = "returned" =>
                  result.response = <<"Claude API error: ", "overloaded">>)
    /\ [][(exit = "api_error" \/ exit' = "api_error") =>
            /\ tool_calls_issued' = tool_calls_issued
            /\ exit = "api_error" => model_calls' = model_calls
            /\ Len(conversation') = Len(conversation)]_vars

\* The second reasoning-service call of a run failed with an API error after a
\* turn whose tool call was executed, and the run returned the diagnostic.
C25_Witness ==
    /\ exit = "api_error"
    /\ pc = "returned"
    /\ model_calls = 2
    /\ AssistantTurns = 1
    /\ tool_calls_issued >= 1
    /\ result.iterations = 2


\* The step is a tool invocation of the loop.
ToolStep == tool_calls_issued' = tool_calls_issued + 1

\* The invocation made by the step failed: the tool is unknown (or its
\* provider is not connected), so nothing was dispatched, or the dispatched
\* call raised.
FailedInvocation ==
    /\ last'.op = "call_tool"
    /\ \/ last'.dispatched = <<>>
       \/ last'.input.raises

\* C26: a failed tool invocation does not end the loop: its error payload is
\* appended as the result of that invocation, and unless the turn was marked
\* end_turn or the iteration bound is reached the loop goes back to the
\* reasoning service, whose next call is issued on a conversation that ends
\* with the results of the turn.
C26_ToolFailuresAreData ==
    /\ [][(ToolStep /\ FailedInvocation) =>
            /\ pc' # "raised"
            /\ Len(tool_results') = Len(tool_results) + 1
            /\ LET res == tool_results'[Len(tool_results')] IN
                  /\ res.tool_use_id = TurnCalls[Len(tool_results')].id
                  /\ res.content.kind = "json"
                  /\ "error" \in DOMAIN res.content
            /\ Len(tool_results') < Len(TurnCalls) => pc' = "EXECUTING_TOOLS"
            /\ Len(tool_results') = Len(TurnCalls) =>
                  /\ conversation' =
                        Append(conversation, [role |-> "user", content |-> tool_results'])
                  /\ pc' = IF response.stop_reason # "end_turn" /\ iterations < max_iterations
                           THEN "AWAITING_MODEL" ELSE "CLEANUP"]_vars
    /\ [][(model_calls' = model_calls + 1 /\ AssistantTurns > 0) =>
            conversation[Len(conversation)] = [role |-> "user", content |-> tool_results]]_vars

\* After a turn whose only tool call raised in the provider, the loop is back
\* at the reasoning service with the error payload as the result of the call.
C26_Witness ==
    /\ pc = "AWAITING_MODEL"
    /\ AssistantTurns = 1
    /\ last.op = "call_tool"
    /\ last.dispatched # <<>>
    /\ last.input.raises
    /\ Len(tool_results) = 1
    /\ tool_results[1].content = [kind |-> "json", error |-> <<"Tool call failed: ", "boom">>]


\* The tool invocations an assistant message asks for, in order.
Invocations(message) == SelectSeq(message.content, LAMBDA b : b.type = "tool_use")

\* The message answers the invocations one for one, in order, by their ids.
Answers(message, invocations) ==
    /\ message.role = "user"
    /\ Len(message.content) = Len(invocations)
    /\ \A j \in 1..Len(invocations) :
          /\ message.content[j].type = "tool_result"
          /\ message.content[j].tool_use_id = invocations[j].id

\* C27: a turn with k >= 1 tool invocations gets exactly one tool-result
\* message, appended right after the assistant message of the turn, with
\* exactly k results in the order of the invocations, each tagged with the id
\* of its invocation; until it is appended the loop is executing the tools of
\* that turn.
C27_OneResultMessage ==
    \A i \in 1..Len(conversation) :
        /\ (conversation[i].role = "assistant" /\ Invocations(conversation[i]) # <<>>) =>
              /\ i = Len(conversation) => pc = "EXECUTING_TOOLS"
              /\ i < Len(conversation) =>
                    Answers(conversation[i + 1], Invocations(conversation[i]))
              /\ i + 2 <= Len(conversation) => conversation[i + 2].role = "assistant"
        /\ (conversation[i].role = "user" /\ i > 1) =>
              /\ conversation[i - 1].role = "assistant"
              /\ Invocations(conversation[i - 1]) # <<>>

\* A turn with two invocations has been answered by one message with the two
\* results, and the next turn has been received.
C27_Witness ==
    /\ Len(conversation) >= 4
    /\ conversation[2].role = "assistant"
    /\ Len(Invocations(conversation[2])) = 2
    /\ Len(conversation[3].content) = 2
    /\ conversation[3].content[2].tool_use_id = "tu2"
    /\ conversation[4].role = "assistant"


\* ------------------------------------------- runs on one agent instance
\* C28: tool_calls_made of the result a run returns equals the number of tool
\* invocations executed during that run.
C28_ToolCallsMade ==
    pc = "returned" => result.tool_calls_made = tool_calls_issued

\* C29: at the first reasoning-service call of every run, also of a later run
\* on the same instance, the conversation is exactly the user message of that
\* run; during a run messages are only appended.
C29_ConversationSeed ==
    /\ [][(model_calls = 0 /\ model_calls' = 1) => conversation = <<UserMessage>>]_vars
    /\ [][/\ Len(conversation') >= Len(conversation)
          /\ SubSeq(conversation', 1, Len(conversation)) = conversation]_vars


\* ------------------------------------------- the order of the pipeline steps
\* The operations of a complete run under the configuration, in order.
ExpectedOrder ==
    <<"discover_endpoints", "generate_k6_script", "snapshot_metrics", "run_k6_test",
      "snapshot_metrics", "analyze_results">>
    \o (IF cfg.baseline = None THEN <<>> ELSE <<"compare_baseline">>)
    \o (IF cfg.save_as = None THEN <<>> ELSE <<"save_baseline">>)
    \o <<"generate_report">>

\* C30: the operations a DeterministicPipeline run has invoked are at every
\* moment a prefix of discover, generate, snapshot(before), run,
\* snapshot(after), analyze, compare only if a baseline was supplied,
\* save-baseline only if a save-as name was supplied, report; a run that
\* completes has invoked exactly this sequence, a run that aborts a prefix
\* (the whole sequence when it is the report step that raises).
C30_FixedStepOrder ==
    /\ Len(invoked) <= Len(ExpectedOrder)
    /\ \A i \in 1..Len(invoked) : invoked[i].name = ExpectedOrder[i]
    /\ Len(invoked) >= 3 => invoked[3].args.label = "before"
    /\ Len(invoked) >= 5 => invoked[5].args.label = "after"
    /\ p_pc = "returned" => Len(invoked) = Len(ExpectedOrder)

\* A run with a baseline and without a save-as name has completed after eight
\* invocations, the comparison among them.
C30_Witness ==
    /\ p_pc = "returned"
    /\ cfg.baseline # None
    /\ cfg.save_as = None
    /\ Len(invoked) = 8
    /\ invoked[7].name = "compare_baseline"
    /\ invoked[8].name = "generate_report"


\* ------------------------------------------- providers that fail to connect
\* The providers whose attempt failed in the connect_all just made.
FailedInCycle == {s \in Servers : last.input[s].fail # "none"}

\* The manager knows nothing of the provider: no registry name is bound to it,
\* the provider map has no entry for it, and no returned tool is one of its.
Excluded(s) ==
    /\ \A n \in DOMAIN tool_to_server : tool_to_server[n] # s
    /\ ~Has(connected_servers, s)
    /\ \A i \in 1..Len(last.ret) : last.ret[i].input_schema[2] # s

\* C31: after connect_all, a provider whose connection attempt failed is
\* excluded from the manager's state: no registry name is owned by it, the
\* provider map has no entry for it, and the returned list has none of its
\* tools.
C31_FailedProviderExcluded ==
    last.op = "connect_all" => \A s \in FailedInCycle : Excluded(s)


\* ------------------------------------------------------- held resources
\* The resources the providers from the i-th on acquired in a connect_all of
\* the given cycle: the transport unless the launch failed, the session unless
\* the launch or the session open failed.
RECURSIVE AcquiredIn(_, _, _)
AcquiredIn(outcomes, cyc, i) ==
    IF i > Len(server_configs) THEN <<>>
    ELSE LET s == server_configs[i]
             f == outcomes[s].fail
         IN (IF f = "launch" THEN <<>>
             ELSE <<[kind |-> "stdio", server |-> s, cycle |-> cyc]>>)
            \o (IF f \in {"launch", "session"} THEN <<>>
                ELSE <<[kind |-> "session", server |-> s, cycle |-> cyc]>>)
            \o AcquiredIn(outcomes, cyc, i + 1)

\* C32: every resource acquired during connect_all, those of a provider whose
\* later handshake step failed included, is recorded in the held-resource
\* list; a held resource leaves the list only in a disconnect_all that has
\* attempted its release, and the next disconnect_all attempts the release of
\* every held resource.
C32_NoLeak ==
    /\ [](last.op = "connect_all" =>
            contexts = last.before.contexts \o AcquiredIn(last.input, connects, 1))
    /\ [](last.op = "disconnect_all" =>
            /\ contexts = <<>>
            /\ \A c \in Range(last.before.contexts) : c \in Range(last.released))
    /\ [][\A c \in Range(contexts) :
            \/ c \in Range(contexts')
            \/ last'.op = "disconnect_all" /\ c \in Range(last'.released)]_vars

\* disconnect_all has released the transport and the session of a provider
\* whose initialize or listing failed, and the transport of one whose session
\* did not open.
C32_Witness ==
    /\ last.op = "disconnect_all"
    /\ \E c \in Range(last.released) :
          /\ c.kind = "session"
          /\ ~Has(last.before.connected_servers, c.server)
          /\ [c EXCEPT !.kind = "stdio"] \in Range(last.released)
    /\ \E c \in Range(last.released) :
          /\ c.kind = "stdio"
          /\ [c EXCEPT !.kind = "session"] \notin Range(last.released)


\* ------------------------------------------------- registry consistency
\* The payload call_tool returns for a registered name whose provider is not
\* in the provider map.
NotConnectedPayload(payload) ==
    /\ payload.kind = "json"
    /\ payload.error[1] = "Server not connected: "

\* C33: between operations every tool name of the registry maps to a provider
\* that is present in the provider map, so no call_tool returns the "Server
\* not connected" payload.
C33_RegistryConsistent ==
    /\ \A n \in DOMAIN tool_to_server : tool_to_server[n] \in DOMAIN connected_servers
    /\ last.op = "call_tool" => ~NotConnectedPayload(last.ret)

\* A registered name has been called and dispatched on a manager that went
\* through two connect_all cycles and has one provider and its names left.
C33_Witness ==
    /\ last.op = "call_tool"
    /\ connects = 2
    /\ last.arg \in DOMAIN tool_to_server
    /\ last.dispatched # <<>>
    /\ Cardinality(DOMAIN connected_servers) = 1


\* ------------------------------------------------------ use after release
\* The manager operation just made follows a disconnect_all with no
\* connect_all since (or is a call on a manager that holds nothing at all).
AfterDisconnect ==
    \/ last.op = "disconnect_all"
    \/ last.op = "call_tool" /\ ManagerEmpty

\* C34: no call_tool dispatches a call to a session whose release a
\* disconnect_all has attempted before, and every call_tool made after a
\* disconnect_all and before the next connect_all dispatches nothing and
\* returns the unknown-tool payload.
C34_NoUseAfterRelease ==
    /\ [](last.op = "call_tool" =>
            \A i \in 1..Len(last.dispatched) : last.dispatched[i].session \notin last.freed)
    /\ [][(AfterDisconnect /\ last'.op = "call_tool") =>
            /\ last'.dispatched = <<>>
            /\ last'.ret = [kind |-> "json", error |-> <<"Unknown tool: ", last'.arg>>]]_vars

\* After the only connect_all and a disconnect_all that released the session
\* of s1, a call of t1 was answered with the unknown-tool payload.
C34_Witness ==
    /\ last.op = "call_tool"
    /\ last.arg = "t1"
    /\ connects = 1
    /\ ManagerEmpty
    /\ [kind |-> "session", server |-> "s1", cycle |-> 1] \in last.freed
    /\ last.dispatched = <<>>


\* -------------------------------------------------- repeated disconnect_all
\* C35: a disconnect_all that follows a disconnect_all with no connect_all in
\* between attempts no release, does not raise and leaves the empty manager
\* unchanged; over any sequence of operations no disconnect_all attempts the
\* release of a resource twice, nor of one whose release was attempted before.
C35_DisconnectIdempotent ==
    /\ [][(AfterDisconnect /\ last'.op = "disconnect_all") =>
            /\ last'.released = <<>>
            /\ ~last'.raised
            /\ ManagerEmpty'
            /\ last'.freed = last.freed]_vars
    /\ [](last.op = "disconnect_all" =>
            \A i, j \in 1..Len(last.released) :
                last.released[i] = last.released[j] => i = j)
    /\ [][last'.op = "disconnect_all" => Range(last'.released) \cap last.freed = {}]_vars

\* A second disconnect_all in a row, after one that released four resources,
\* released nothing.
C35_Witness ==
    /\ last.op = "disconnect_all"
    /\ last.released = <<>>
    /\ Cardinality(last.freed) = 4
    /\ connects = 1
    /\ ManagerEmpty


\* ------------------------------------------- end_turn with tool invocations
\* The latest turn asks for tools and is marked end_turn.
EndTurnWithTools ==
    /\ AssistantTurns > 0
    /\ Invocations(response) # <<>>
    /\ response.stop_reason = "end_turn"

\* C36: a turn that asks for tools and is marked end_turn has all of its tool
\* invocations executed, counted in tool_calls_made and appended as one
\* tool-result message before the loop ends; receiving such a turn takes the
\* loop from AWAITING_MODEL to the execution of its tools, not to its end.
C36_EndTurnToolsExecuted ==
    /\ [](EndTurnWithTools =>
            \/ /\ pc = "EXECUTING_TOOLS"
               /\ Len(tool_results) < Len(Invocations(response))
            \/ /\ pc \in {"CLEANUP", "returned"}
               /\ tool_calls_issued >= Len(Invocations(response))
               /\ total_tool_calls = tool_calls_issued
               /\ Answers(conversation[Len(conversation)], Invocations(response))
               /\ pc = "returned" => result.tool_calls_made = tool_calls_issued)
    /\ [][(pc = "AWAITING_MODEL" /\ EndTurnWithTools' /\ model_calls' = model_calls + 1
           /\ Len(conversation') > Len(conversation)) =>
            pc' = "EXECUTING_TOOLS"]_vars

\* A first turn with two invocations and end_turn: both were executed and
\* counted, and the run returned its text.
C36_Witness ==
    /\ EndTurnWithTools
    /\ pc = "returned"
    /\ model_calls = 1
    /\ Len(Invocations(response)) = 2
    /\ result.tool_calls_made = 2
    /\ Len(conversation) = 3


\* ------------------------------------------------------- cut-off CI runs
\* C37: in CI mode a run that ends by the iteration-bound cutoff returns an
\* empty response and has_regression = FALSE, so the command line exits with
\* the status of a passing run, 0.
C37_CutoffPassesCI ==
    (ci_mode /\ pc = "returned" /\ exit = "cutoff") =>
        /\ result.response = <<>>
        /\ ~result.has_regression
        /\ exit_status(result) = 0

\* A CI run was cut off after a turn that carried the failure marker as text
\* next to its tool call, and returned unflagged.
C37_Witness ==
    /\ ci_mode
    /\ pc = "returned"
    /\ exit = "cutoff"
    /\ CutOffTurn
    /\ \E i \in 1..Len(response.content) :
          /\ response.content[i].type = "text"
          /\ HasFailMarker(response.content[i].text)
    /\ ~result.has_regression

====
